---- MODULE Spec2Model ----
(***************************************************************************)
(* Ingestion and storage engine of indiekit-endpoint-microsub: the tiered  *)
(* feed poller (lib/polling), the feed store (storage/feeds), the item     *)
(* store with read state, retention cleanup and cursor pagination          *)
(* (lib/storage/items.js, lib/utils/pagination.js).                        *)
(*                                                                         *)
(* Time is in milliseconds, as Date.now() gives it.  MongoDB ObjectIds are *)
(* natural numbers handed out by a counter, so that _id order is insertion *)
(* order.  Every database call is one atomic step; an async function is    *)
(* split at its awaits.                                                    *)
(***************************************************************************)
EXTENDS Integers, Sequences, FiniteSets, TLC

\* ------------------------------------------------------------------------
\* Bounds of the model
\* ------------------------------------------------------------------------
MaxUid == 3            \* uids the remote feed can list: 1..MaxUid
MaxItemId == 4         \* item inserts explored (ObjectId counter cap)
MaxFeedId == 2         \* feed subscriptions created
MaxCalls == 2
MaxChannelId == 2
MaxProcs == 2          \* processFeed invocations that can overlap
MaxRuns == 3           \* processFeed invocations started in the racing spec
MaxNow == 120000       \* the clock stops advancing here (two scheduler periods)
MaxUnmodified == 11    \* cap on the unmodified counter (it is unbounded at tier 10)
MaxStreak == 16        \* length of a no-new-items streak that is counted

\* Retention threshold of the read-state cleanup.  The program keeps 200 full
\* read items per (channel, user) (items.js:324); the model keeps this many,
\* and every formula is stated in terms of the name.
MAX_FULL_READ_ITEMS == 1

Uids == 1..MaxUid
Channels == {1, 2}
Owners == {"A", "B"}
ProcIds == 1..MaxProcs
CallIds == 1..MaxCalls
PubTimes == {1000, 2000}   \* publication dates a feed entry may carry
None == -1                 \* undefined / null

\* ------------------------------------------------------------------------
\* State
\* ------------------------------------------------------------------------
VARIABLES
  now,         \* Date.now()
  feeds,       \* microsub_feeds: set of feed documents
  nextFeedId,  \* next ObjectId of a feed
  items,       \* microsub_items: set of item documents
  nextId,      \* next ObjectId of an item
  procs,       \* processFeed invocations, by slot
  runs,        \* number of processFeed invocations started
  streak,      \* history: successive no-new-items fetches since (tier 1, unmodified 0)
  last,        \* what the step just taken returned or persisted (NoObs if nothing)
  channels,    \* microsub_channels: set of channel documents
  nextChannelId, \* next ObjectId of a channel
  calls,       \* other asynchronous calls in flight, by slot
  isRunning,   \* scheduler.js: the module variable isRunning
  blocked,     \* microsub_blocked: set of {userId, url} documents
  notifications, \* microsub_notifications: set of notification documents
  nextNotificationId \* next ObjectId of a notification

vars == <<now, feeds, nextFeedId, items, nextId, procs, runs, streak, last,
          channels, nextChannelId, calls, isRunning,
          blocked, notifications, nextNotificationId>>

\* what every operation outside the block list and the webmentions leaves alone
ext == <<blocked, notifications, nextNotificationId>>

\* what the feed and item operations leave alone
ctl == <<channels, nextChannelId, calls, isRunning>>

\* ------------------------------------------------------------------------
\* polling/tier.js
\* ------------------------------------------------------------------------
MIN_TIER == 0
MAX_TIER == 10
DEFAULT_TIER == 1

Max(a, b) == IF a >= b THEN a ELSE b
Min(a, b) == IF a <= b THEN a ELSE b

getIntervalForTier(tier) ==
  LET clampedTier == Max(MIN_TIER, Min(MAX_TIER, tier))
      minutes == 2 ^ clampedTier
  IN minutes * 60 * 1000

getNextFetchTime(tier, t) == t + getIntervalForTier(tier)

\* the threshold of the legacy rule (feeds.js updateFeedAfterFetch): always 2
thresholdConstant(currentTier) == 2

\* const threshold = Math.max(2, currentTier)
threshold(currentTier) == Max(2, currentTier)

\* calculateNewTier without `newConsecutiveUnchanged = 0` after a tier change
calculateNewTierNoReset(currentTier, hasNewItems, consecutiveUnchanged, t) ==
  LET up == (~hasNewItems)
            /\ consecutiveUnchanged + 1 >= Max(2, currentTier)
            /\ currentTier < MAX_TIER
      newTier == IF hasNewItems
                 THEN (IF currentTier > MIN_TIER THEN currentTier - 1 ELSE currentTier)
                 ELSE (IF up THEN currentTier + 1 ELSE currentTier)
  IN [tier |-> newTier,
      consecutiveUnchanged |-> IF hasNewItems THEN 0 ELSE consecutiveUnchanged + 1,
      nextFetchAt |-> getNextFetchTime(newTier, t)]

\* calculateNewTier without the `currentTier < MAX_TIER` test
calculateNewTierNoCeiling(currentTier, hasNewItems, consecutiveUnchanged, t) ==
  LET up == (~hasNewItems)
            /\ consecutiveUnchanged + 1 >= Max(2, currentTier)
      newTier == IF hasNewItems
                 THEN (IF currentTier > MIN_TIER THEN currentTier - 1 ELSE currentTier)
                 ELSE (IF up THEN currentTier + 1 ELSE currentTier)
  IN [tier |-> newTier,
      consecutiveUnchanged |-> IF hasNewItems \/ up THEN 0
                               ELSE consecutiveUnchanged + 1,
      nextFetchAt |-> getNextFetchTime(newTier, t)]

\* calculateNewTier(options), with Date.now() = t
calculateNewTier(currentTier, hasNewItems, consecutiveUnchanged, t) ==
  LET up == (~hasNewItems)
            /\ consecutiveUnchanged + 1 >= threshold(currentTier)
            /\ currentTier < MAX_TIER
      newTier == IF hasNewItems
                 THEN (IF currentTier > MIN_TIER THEN currentTier - 1 ELSE currentTier)
                 ELSE (IF up THEN currentTier + 1 ELSE currentTier)
      newConsecutiveUnchanged ==
                 IF hasNewItems THEN 0
                 ELSE (IF up THEN 0 ELSE consecutiveUnchanged + 1)
  IN [tier |-> newTier,
      consecutiveUnchanged |-> newConsecutiveUnchanged,
      nextFetchAt |-> getNextFetchTime(newTier, t)]

\* ------------------------------------------------------------------------
\* storage/feeds.js
\* ------------------------------------------------------------------------
NoFeed == [id |-> None]

\* a feed document without a `websub` field
NoWebsub == [hub |-> None, topic |-> None, secret |-> None, pending |-> FALSE,
             leaseSeconds |-> None, expiresAt |-> None]

FeedById(id) == {f \in feeds : f.id = id}

\* createFeed(application, {channelId, url}): the document it inserts; it has
\* no status ("" here) and no consecutiveErrors (which $inc reads as 0)
newFeed(id, channelId, url, t) ==
  [id |-> id, channelId |-> channelId, url |-> url,
   tier |-> 1, unmodified |-> 0, nextFetchAt |-> t,
   lastFetchedAt |-> None, lastError |-> FALSE, websub |-> NoWebsub,
   status |-> "", consecutiveErrors |-> 0,
   etag |-> None, title |-> None]

\* a query that returns every feed, due or not
getFeedsToFetchAll(t) == feeds

\* getFeedsToFetch: nextFetchAt undefined or <= now
getFeedsToFetch(t) ==
  {f \in feeds : f.nextFetchAt = None \/ f.nextFetchAt <= t}

\* an update that writes the validators also when the caller passes none
updateFeedAfterFetchReplace(fs, id, changed, extra, t) ==
  {IF f.id # id THEN f
   ELSE IF extra.tier = None
   THEN LET u1 == f.unmodified + 1
            tier == IF changed THEN Max(0, f.tier - 1)
                    ELSE IF u1 >= 2 THEN Min(10, f.tier + 1) ELSE f.tier
            unmodified == IF changed \/ u1 >= 2 THEN 0 ELSE u1
        IN [f EXCEPT !.tier = tier, !.unmodified = unmodified,
                     !.nextFetchAt = t + (2 ^ tier) * 60 * 1000,
                     !.lastFetchedAt = t]
   ELSE [f EXCEPT !.tier = extra.tier, !.unmodified = extra.unmodified,
                  !.nextFetchAt = extra.nextFetchAt,
                  !.lastError = IF extra.lastError THEN TRUE ELSE f.lastError,
                  !.etag = IF "etag" \in DOMAIN extra THEN extra.etag ELSE None,
                  !.title = IF "title" \in DOMAIN extra THEN extra.title
                            ELSE f.title,
                  !.lastFetchedAt = t]
   : f \in fs}

\* updateFeedAfterFetch(application, id, changed, extra) at time t: the new
\* contents of the collection.  extra.tier = None is the legacy branch, which
\* computes the tier from the stored document; a missing feed is left alone.
updateFeedAfterFetch(fs, id, changed, extra, t) ==
  {IF f.id # id THEN f
   ELSE IF extra.tier = None
   THEN LET u1 == f.unmodified + 1
            tier == IF changed THEN Max(0, f.tier - 1)
                    ELSE IF u1 >= 2 THEN Min(10, f.tier + 1) ELSE f.tier
            unmodified == IF changed \/ u1 >= 2 THEN 0 ELSE u1
        IN [f EXCEPT !.tier = tier, !.unmodified = unmodified,
                     !.nextFetchAt = t + (2 ^ tier) * 60 * 1000,
                     !.lastFetchedAt = t]
   ELSE [f EXCEPT !.tier = extra.tier, !.unmodified = extra.unmodified,
                  !.nextFetchAt = extra.nextFetchAt,
                  !.lastError = IF extra.lastError THEN TRUE ELSE f.lastError,
                  !.etag = IF "etag" \in DOMAIN extra THEN extra.etag ELSE f.etag,
                  !.title = IF "title" \in DOMAIN extra THEN extra.title
                            ELSE f.title,
                  !.lastFetchedAt = t]
   : f \in fs}

\* updateFeedWebsub(application, id, websub): $set of the whole `websub`
\* object; secret is stored only when given, pending is not stored at all
updateFeedWebsub(fs, id, websub, t) ==
  {IF f.id # id THEN f
   ELSE [f EXCEPT !.websub =
           [hub |-> websub.hub, topic |-> websub.topic, secret |-> websub.secret,
            pending |-> FALSE,
            leaseSeconds |-> IF websub.leaseSeconds \in {None, 0} THEN None
                             ELSE websub.leaseSeconds,
            expiresAt |-> IF websub.leaseSeconds \in {None, 0} THEN None
                          ELSE t + websub.leaseSeconds * 1000]]
   : f \in fs}

\* ------------------------------------------------------------------------
\* storage/channels.js: channel documents and getChannel
\* ------------------------------------------------------------------------
\* options.userId absent (falsy)
NoUser == ""

\* uids generateChannelUid() returns, one per channel created
UidPool == <<"c1", "c2", "c3", "c4">>

\* settings of a new channel: excludeTypes [], excludeRegex undefined
NoSettings == [excludeTypes |-> {}, excludeRegex |-> ""]

newChannel(id, uid, userId) ==
  [id |-> id, uid |-> uid, userId |-> userId, settings |-> NoSettings]

\* the value passed as `uid` to getChannel: a uid string, or an ObjectId
StringKey(uid) == [type |-> "string", v |-> uid, oid |-> None]
ObjectIdKey(id) == [type |-> "ObjectId", v |-> "", oid |-> id]

\* getChannel(application, uid, userId): findOne({uid, userId?}); the uid
\* field of a channel document is a string, so an ObjectId equals none
getChannel(chs, key, userId) ==
  {c \in chs : /\ key.type = "string"
               /\ c.uid = key.v
               /\ userId # NoUser => c.userId = userId}

\* ------------------------------------------------------------------------
\* storage/filters.js and the channel lookup of processFeed
\* ------------------------------------------------------------------------
\* the entry of a feed with a given uid: entry 1 is a note whose text holds
\* "spam", entry 2 a like that is also a reply, the others plain posts
EntryOf(uid) ==
  [uid |-> uid,
   props |-> IF uid = 2 THEN {"like-of", "in-reply-to"} ELSE {},
   words |-> IF uid = 1 THEN {"spam"} ELSE {"news"}]

\* detectInteractionType(item)
detectInteractionType(item) ==
  IF "like-of" \in item.props THEN "like"
  ELSE IF "repost-of" \in item.props THEN "repost"
  ELSE IF "bookmark-of" \in item.props THEN "bookmark"
  ELSE IF "in-reply-to" \in item.props THEN "reply"
  ELSE IF "rsvp" \in item.props THEN "rsvp"
  ELSE IF "checkin" \in item.props THEN "checkin"
  ELSE "post"

\* passesTypeFilter(item, settings)
passesTypeFilter(item, settings) ==
  settings.excludeTypes = {} \/ detectInteractionType(item) \notin settings.excludeTypes

\* passesRegexFilter(item, settings): the model's patterns are single words
passesRegexFilter(item, settings) ==
  settings.excludeRegex = "" \/ settings.excludeRegex \notin item.words

\* passesFilters(item, settings)
passesFilters(item, settings) ==
  passesTypeFilter(item, settings) /\ passesRegexFilter(item, settings)

\* ------------------------------------------------------------------------
\* storage/items.js: addItem
\* ------------------------------------------------------------------------
\* url of the feed entry with a given uid: entries 1 and 2 share a permalink
ItemUrl(uid) == (uid + 1) \div 2

\* collection.findOne({channelId, uid}), ignoring stripped skeletons
findOneSkipStripped(its, channelId, uid) ==
  {i \in its : i.channelId = channelId /\ i.uid = uid /\ ~i.stripped}

\* collection.findOne({channelId, uid}): the matching documents
findOne(its, channelId, uid) ==
  {i \in its : i.channelId = channelId /\ i.uid = uid}

\* the document addItem builds; published <- item.published or now
newItem(id, channelId, feedId, uid, published, t) ==
  [id |-> id, channelId |-> channelId, feedId |-> feedId, uid |-> uid,
   url |-> ItemUrl(uid),
   published |-> IF published = None THEN t ELSE published,
   content |-> TRUE, readBy |-> {}, stripped |-> FALSE]

\* insertOne without the unique index: never rejects
duplicateKeyNoIndex(its, doc) == FALSE

\* insertOne under the unique index {channelId: 1, uid: 1} (createIndexes):
\* TRUE when the insert is rejected with a duplicate key error
duplicateKey(its, doc) ==
  \E i \in its : i.channelId = doc.channelId /\ i.uid = doc.uid

\* ------------------------------------------------------------------------
\* polling/processor.js: processFeed, split at its awaits
\*   "fetch"  awaiting fetchAndParseFeed
\*   "loop"   at the head of `for (const item of parsed.items)`
\*   "insert" inside addItem, between findOne and insertOne
\*   "catch"  an exception was thrown inside the try block
\* processFeed
\* ------------------------------------------------------------------------
IdleProc == [pc |-> "idle", feed |-> NoFeed, parsed |-> <<>>,
             newItemCount |-> 0, origin |-> "none", pushed |-> {},
             channel |-> {}]

NoObs == [op |-> "none"]

\* a free slot for an asynchronous call
NoCall == [fn |-> "none"]

RECURSIVE AscSeq(_)
\* the entries of a fetched feed, in document order
AscSeq(S) ==
  IF S = {} THEN <<>>
  ELSE LET m == CHOOSE x \in S : \A y \in S : x <= y
       IN <<m>> \o AscSeq(S \ {m})

\* the observation of one updateFeedAfterFetch made by processFeed
Observe(p, kind, feed, extra) ==
  [op |-> "update", kind |-> kind, feedId |-> feed.id,
   origin |-> procs[p].origin, pushed |-> procs[p].pushed,
   fromTier |-> feed.tier, fromUnmodified |-> feed.unmodified,
   fromNextFetchAt |-> feed.nextFetchAt,
   fromConsecutiveErrors |-> feed.consecutiveErrors,
   tier |-> extra.tier, unmodified |-> extra.unmodified,
   nextFetchAt |-> extra.nextFetchAt, at |-> now,
   applied |-> FeedById(feed.id) # {}]

\* successive fetches without new items since the feed was at (tier 1, unmodified 0)
NextStreak(kind, feed, extra) ==
  IF FeedById(feed.id) = {} THEN streak
  ELSE [streak EXCEPT ![feed.id] =
          IF kind \in {"empty", "304"}
          THEN (IF @ < 0 THEN @ ELSE Min(@ + 1, MaxStreak))
          ELSE (IF extra.tier = 1 /\ extra.unmodified = 0 THEN 0 ELSE -1)]

\* follow: createFeed is idempotent on (channelId, url)
CreateFeed(c, url) ==
  /\ ~ \E f \in feeds : f.channelId = c /\ f.url = url
  /\ nextFeedId <= MaxFeedId
  /\ feeds' = feeds \cup {newFeed(nextFeedId, c, url, now)}
  /\ nextFeedId' = nextFeedId + 1
  /\ streak' = [streak EXCEPT ![nextFeedId] = 0]
  /\ last' = NoObs
  /\ UNCHANGED <<ext, now, items, nextId, procs, runs, ctl>>

\* processFeed(application, feed) is entered with a feed document read from
\* the store: by the scheduler (getFeedsToFetch), by refreshFeedNow
\* (getFeedById) or by the WebSub callback (getFeedBySubscriptionId)
StartProcessFeed(p, f, origin) ==
  /\ procs[p].pc = "idle"
  /\ f \in feeds
  /\ origin = "poll" => f \in getFeedsToFetch(now)
  /\ f.unmodified < MaxUnmodified
  /\ procs' = [procs EXCEPT ![p] = [pc |-> "fetch", feed |-> f, parsed |-> <<>>,
                                    newItemCount |-> 0, origin |-> origin,
                                    pushed |-> {}, channel |-> {}]]
  /\ runs' = Min(runs + 1, MaxRuns)
  /\ last' = NoObs
  /\ UNCHANGED <<ext, now, feeds, nextFeedId, items, nextId, streak, ctl>>

\* fetchAndParseFeed answered 304 Not Modified
FetchNotModified(p) ==
  /\ procs[p].pc = "fetch"
  /\ LET feed == procs[p].feed
         tierResult == calculateNewTier(feed.tier, FALSE, feed.unmodified, now)
         extra == [tier |-> tierResult.tier,
                   unmodified |-> tierResult.consecutiveUnchanged,
                   nextFetchAt |-> tierResult.nextFetchAt,
                   lastError |-> FALSE]
     IN /\ feeds' = updateFeedAfterFetch(feeds, feed.id, FALSE, extra, now)
        /\ last' = Observe(p, "304", feed, extra)
        /\ streak' = NextStreak("304", feed, extra)
  /\ procs' = [procs EXCEPT ![p] = IdleProc]
  /\ UNCHANGED <<ext, now, nextFeedId, items, nextId, runs, ctl>>

\* fetchAndParseFeed threw: HTTP error, timeout or parse failure
FetchError(p) ==
  /\ procs[p].pc = "fetch"
  /\ procs' = [procs EXCEPT ![p].pc = "catch"]
  /\ last' = NoObs
  /\ UNCHANGED <<ext, now, feeds, nextFeedId, items, nextId, runs, streak, ctl>>

\* fetchAndParseFeed returned the entries S of the feed
FetchOk(p, S) ==
  /\ procs[p].pc = "fetch"
  /\ procs' = [procs EXCEPT
                 ![p].pc = "loop", ![p].parsed = AscSeq(S),
                 ![p].channel = getChannel(channels,
                                           ObjectIdKey(procs[p].feed.channelId),
                                           NoUser)]
  /\ last' = NoObs
  /\ UNCHANGED <<ext, now, feeds, nextFeedId, items, nextId, runs, streak, ctl>>

\* addItem, first half: `existing = await collection.findOne({channelId, uid})`
AddItemFind(p) ==
  /\ procs[p].pc = "loop"
  /\ procs[p].parsed # <<>>
  /\ LET feed == procs[p].feed
         uid == Head(procs[p].parsed)
         existing == findOne(items, feed.channelId, uid)
     IN IF \E channel \in procs[p].channel :
             ~passesFilters(EntryOf(uid), channel.settings)
        THEN /\ procs' = [procs EXCEPT ![p].parsed = Tail(@)]
             /\ last' = NoObs
        ELSE IF existing # {}
        THEN /\ procs' = [procs EXCEPT ![p].parsed = Tail(@)]
             /\ last' = [op |-> "addItem", uid |-> uid, channelId |-> feed.channelId,
                            existed |-> TRUE,
                            skeleton |-> \E i \in existing : i.stripped,
                            stored |-> FALSE, threw |-> FALSE]
        ELSE /\ procs' = [procs EXCEPT ![p].pc = "insert"]
             /\ last' = NoObs
  /\ UNCHANGED <<ext, now, feeds, nextFeedId, items, nextId, runs, streak, ctl>>

\* addItem, second half: `await collection.insertOne(document)`; the entry's
\* published date (or its absence) is part of the parsed feed
AddItemInsert(p, published) ==
  /\ procs[p].pc = "insert"
  /\ nextId <= MaxItemId
  /\ LET feed == procs[p].feed
         uid == Head(procs[p].parsed)
         document == newItem(nextId, feed.channelId, feed.id, uid, published, now)
         obs == [op |-> "addItem", uid |-> uid, channelId |-> feed.channelId,
                 existed |-> findOne(items, feed.channelId, uid) # {},
                 skeleton |-> \E i \in findOne(items, feed.channelId, uid) : i.stripped,
                 stored |-> FALSE, threw |-> FALSE]
     IN IF duplicateKey(items, document)
        THEN /\ procs' = [procs EXCEPT ![p].pc = "catch"]
             /\ last' = [obs EXCEPT !.threw = TRUE]
             /\ UNCHANGED <<items, nextId>>
        ELSE /\ items' = items \cup {document}
             /\ nextId' = nextId + 1
             /\ procs' = [procs EXCEPT ![p].pc = "loop",
                                       ![p].parsed = Tail(@),
                                       ![p].newItemCount = @ + 1]
             /\ last' = [obs EXCEPT !.stored = TRUE]
  /\ UNCHANGED <<ext, now, feeds, nextFeedId, runs, streak, ctl>>

\* parsed.etag and parsed.lastModified: the validators of a fetched feed
ETagOf(url) == url

\* parsed.name and parsed.photo of a fetched feed
NameOf(url) == url

\* parsed.hub: the WebSub hub a fetched feed advertises; feed 1 advertises hub 1
HubOf(url) == IF url = 1 THEN 1 ELSE None

\* after the loop: calculateNewTier, updateFeedAfterFetch, then hub discovery
\* (updateFeedWebsub with {hub, topic} when the hub differs from the one in
\* the feed document processFeed was given), return
FinishProcessFeed(p) ==
  /\ procs[p].pc = "loop"
  /\ procs[p].parsed = <<>>
  /\ LET feed == procs[p].feed
         newItemCount == procs[p].newItemCount
         tierResult == calculateNewTier(feed.tier, newItemCount > 0,
                         IF newItemCount > 0 THEN 0 ELSE feed.unmodified, now)
         metadata == [tier |-> tierResult.tier,
                      unmodified |-> tierResult.consecutiveUnchanged,
                      nextFetchAt |-> tierResult.nextFetchAt,
                      lastError |-> FALSE,
                      etag |-> ETagOf(feed.url)]
         updateData == IF feed.title = None
                       THEN metadata @@ [title |-> NameOf(feed.url)]
                       ELSE metadata
         kind == IF newItemCount > 0 THEN "new" ELSE "empty"
         updated == updateFeedAfterFetch(feeds, feed.id, newItemCount > 0,
                                         updateData, now)
         hub == HubOf(feed.url)
     IN /\ feeds' = IF hub # None /\ feed.websub.hub # hub
                     THEN updateFeedWebsub(updated, feed.id,
                                           [hub |-> hub, topic |-> feed.url,
                                            secret |-> None,
                                            leaseSeconds |-> None,
                                            pending |-> FALSE], now)
                     ELSE updated
        /\ last' = Observe(p, kind, feed, updateData)
        /\ streak' = NextStreak(kind, feed, updateData)
  /\ procs' = [procs EXCEPT ![p] = IdleProc]
  /\ UNCHANGED <<ext, now, nextFeedId, items, nextId, runs, ctl>>

\* the catch block: "Still update the feed to prevent retry storms"
CatchProcessFeed(p) ==
  /\ procs[p].pc = "catch"
  /\ LET feed == procs[p].feed
         tierResult == calculateNewTier(feed.tier, FALSE, feed.unmodified + 1, now)
         extra == [tier |-> Min(tierResult.tier + 1, 10),
                   unmodified |-> tierResult.consecutiveUnchanged,
                   nextFetchAt |-> tierResult.nextFetchAt,
                   lastError |-> TRUE]
     IN /\ feeds' = updateFeedAfterFetch(feeds, feed.id, FALSE, extra, now)
        /\ last' = Observe(p, "error", feed, extra)
        /\ streak' = NextStreak("error", feed, extra)
  /\ procs' = [procs EXCEPT ![p] = IdleProc]
  /\ UNCHANGED <<ext, now, nextFeedId, items, nextId, runs, ctl>>

\* ------------------------------------------------------------------------
\* storage/items.js: entry matching of markItemsRead, markItemsUnread and
\* removeItems.  An entry id is matched against _id, uid and url; the model
\* tags it with the field it is meant for.
\* ------------------------------------------------------------------------
LastReadEntry == [kind |-> "last-read-entry", v |-> 0]

EntryMatches(i, entryIds) ==
  \E e \in entryIds :
     \/ e.kind = "id" /\ i.id = e.v
     \/ e.kind = "uid" /\ i.uid = e.v
     \/ e.kind = "url" /\ i.url = e.v

\* removeItems(application, channelId, entryIds)
RemoveItems(c, entryIds) ==
  /\ \E i \in items : i.channelId = c /\ EntryMatches(i, entryIds)
  /\ items' = {i \in items : ~(i.channelId = c /\ EntryMatches(i, entryIds))}
  /\ last' = NoObs
  /\ UNCHANGED <<ext, now, feeds, nextFeedId, nextId, procs, runs, streak, ctl>>

\* ------------------------------------------------------------------------
\* storage/items.js: read state and retention cleanup
\* ------------------------------------------------------------------------
\* (published, _id) order of .sort({published: -1, _id: -1})
Newer(i, j) ==
  \/ i.published > j.published
  \/ i.published = j.published /\ i.id > j.id

RECURSIVE SortDesc(_)
\* find(...).sort({published: -1, _id: -1}).toArray()
SortDesc(S) ==
  IF S = {} THEN <<>>
  ELSE LET m == CHOOSE x \in S : \A y \in S \ {x} : Newer(x, y)
       IN <<m>> \o SortDesc(S \ {m})

\* cursor.skip(n)
Skip(seq, n) == IF Len(seq) <= n THEN <<>> ELSE SubSeq(seq, n + 1, Len(seq))

SeqToSet(seq) == {seq[k] : k \in 1..Len(seq)}

\* updateMany(..., {$set: {_stripped: true}, $unset: {name, content, ...}})
Strip(i) == [i EXCEPT !.stripped = TRUE, !.content = FALSE]

\* the documents cleanupOldReadItems selects: read by userId, not stripped,
\* beyond the MAX_FULL_READ_ITEMS newest; none unless readCount > limit
itemsToCleanup(its, channelId, userId) ==
  LET readCount == Cardinality({i \in its : i.channelId = channelId
                                           /\ userId \in i.readBy})
  IN IF readCount > MAX_FULL_READ_ITEMS
     THEN SeqToSet(Skip(SortDesc({i \in its : /\ i.channelId = channelId
                                              /\ userId \in i.readBy
                                              /\ ~i.stripped}),
                        MAX_FULL_READ_ITEMS))
     ELSE {}

\* cleanupOldReadItems(collection, channelObjectId, userId): items without a
\* feedId are deleted, the others stripped to dedup skeletons
cleanupOldReadItems(its, channelId, userId) ==
  LET old == itemsToCleanup(its, channelId, userId)
      apItemIds == {i \in old : i.feedId = None}
      rssItemIds == {i \in old : i.feedId # None}
  IN ((its \ apItemIds) \ rssItemIds) \cup {Strip(i) : i \in rssItemIds}

\* markItemsRead reaches cleanupOldReadItems only in the "last-read-entry" branch
cleanupAfterMark(entryIds) == LastReadEntry \in entryIds

\* $addToSet readBy on the matching documents of every channel
addToSetReadByAnyChannel(its, channelId, entryIds, userId) ==
  {IF LastReadEntry \in entryIds \/ EntryMatches(i, entryIds)
   THEN [i EXCEPT !.readBy = @ \cup {userId}] ELSE i : i \in its}

\* updateMany(query, {$addToSet: {readBy: userId}})
addToSetReadBy(its, channelId, entryIds, userId) ==
  {IF i.channelId = channelId
      /\ (LastReadEntry \in entryIds \/ EntryMatches(i, entryIds))
   THEN [i EXCEPT !.readBy = @ \cup {userId}] ELSE i : i \in its}

\* markItemsRead(application, channelId, entryIds, userId)
MarkItemsRead(c, entryIds, userId) ==
  LET marked == addToSetReadBy(items, c, entryIds, userId)
      old == IF cleanupAfterMark(entryIds)
             THEN itemsToCleanup(marked, c, userId) ELSE {}
  IN /\ items' = IF cleanupAfterMark(entryIds)
                 THEN cleanupOldReadItems(marked, c, userId)
                 ELSE marked
     /\ last' = [op |-> "markRead", channelId |-> c, userId |-> userId,
                  entryIds |-> entryIds, cleaned |-> old]
     /\ UNCHANGED <<ext, now, feeds, nextFeedId, nextId, procs, runs, streak, ctl>>

\* $pull readBy from the documents whose uid is among the entries only
pullReadByUidOnly(its, channelId, entryIds, userId) ==
  {IF i.channelId = channelId /\ (\E e \in entryIds : e.kind = "uid" /\ i.uid = e.v)
   THEN [i EXCEPT !.readBy = @ \ {userId}] ELSE i : i \in its}

\* updateMany({channelId, $or: [_id, uid, url]}, {$pull: {readBy: userId}})
pullReadBy(its, channelId, entryIds, userId) ==
  {IF i.channelId = channelId /\ EntryMatches(i, entryIds)
   THEN [i EXCEPT !.readBy = @ \ {userId}] ELSE i : i \in its}

\* markItemsUnread(application, channelId, entryIds, userId): $pull readBy;
\* it has no "last-read-entry" branch
MarkItemsUnread(c, entryIds, userId) ==
  /\ items' = pullReadBy(items, c, entryIds, userId)
  /\ last' = [op |-> "markUnread", channelId |-> c, userId |-> userId,
               entryIds |-> entryIds,
               afterMarkRead |-> /\ last.op = "markRead"
                                 /\ last.channelId = c
                                 /\ last.userId = userId
                                 /\ last.entryIds = entryIds]
  /\ UNCHANGED <<ext, now, feeds, nextFeedId, nextId, procs, runs, streak, ctl>>

\* addItem(application, {channelId, feedId, uid, item}) called on its own:
\* findOne and insertOne with nothing in between
AddItem(c, feedId, uid, published) ==
  /\ nextId <= MaxItemId
  /\ LET existing == findOne(items, c, uid)
         document == newItem(nextId, c, feedId, uid, published, now)
         obs == [op |-> "addItem", uid |-> uid, channelId |-> c,
                 existed |-> \E i \in items : i.channelId = c /\ i.uid = uid,
                 skeleton |-> \E i \in items : i.channelId = c /\ i.uid = uid
                                                /\ i.stripped,
                 stored |-> FALSE, threw |-> FALSE, before |-> {}]
     IN IF existing # {}
        THEN /\ last' = [obs EXCEPT !.before = items]
             /\ UNCHANGED <<items, nextId>>
        ELSE IF duplicateKey(items, document)
        THEN /\ last' = [obs EXCEPT !.threw = TRUE]
             /\ UNCHANGED <<items, nextId>>
        ELSE /\ items' = items \cup {document}
             /\ nextId' = nextId + 1
             /\ last' = [obs EXCEPT !.stored = TRUE]
  /\ UNCHANGED <<ext, now, feeds, nextFeedId, procs, runs, streak, ctl>>

\* ------------------------------------------------------------------------
\* utils/pagination.js and storage/items.js: getTimelineItems
\* ------------------------------------------------------------------------
DEFAULT_LIMIT == 20
MAX_LIMIT == 100

\* parseLimit(limit)
parseLimit(limit) ==
  IF limit = None \/ limit < 1 THEN DEFAULT_LIMIT ELSE Min(limit, MAX_LIMIT)

\* encodeCursor(timestamp, id): base64url of JSON {t: ISO string, i: id string}.
\* Date -> toISOString() -> new Date() keeps the millisecond value, and
\* ObjectId -> toString() -> new ObjectId() keeps the id.
\* no cursor parameter in the request / null in the paging object
NoCursor == [t |-> None, i |-> None]

encodeCursor(timestamp, id) == [t |-> timestamp, i |-> id]

\* decodeCursor(cursor)
decodeCursor(cursor) ==
  IF cursor = NoCursor THEN NoCursor ELSE [timestamp |-> cursor.t, id |-> cursor.i]

\* the cursor predicate comparing published only, without the _id tie-break
buildPaginationQueryNoTieBreak(S, before, after) ==
  IF before # NoCursor
  THEN {i \in S : i.published > decodeCursor(before).timestamp}
  ELSE IF after # NoCursor
  THEN {i \in S : i.published < decodeCursor(after).timestamp}
  ELSE S

\* buildPaginationQuery({before, after, baseQuery}): the documents of the base
\* query S that the $or of the cursor admits; `before` wins over `after`
buildPaginationQuery(S, before, after) ==
  IF before # NoCursor
  THEN LET cursor == decodeCursor(before)
       IN {i \in S : \/ i.published > cursor.timestamp
                     \/ i.published = cursor.timestamp /\ i.id > cursor.id}
  ELSE IF after # NoCursor
  THEN LET cursor == decodeCursor(after)
       IN {i \in S : \/ i.published < cursor.timestamp
                     \/ i.published = cursor.timestamp /\ i.id < cursor.id}
  ELSE S

\* buildPaginationSort(before)
buildPaginationSort(before) == IF before # NoCursor THEN "asc" ELSE "desc"

Reverse(seq) == [k \in 1..Len(seq) |-> seq[Len(seq) + 1 - k]]

\* cursor.limit(n).toArray()
Limit(seq, n) == SubSeq(seq, 1, Min(n, Len(seq)))

\* generatePagingCursors(items, limit, hasMore, before); with `before` it
\* reverses the array it is given, in place
generatePagingCursors(itemsArr, limit, hasMore, before) ==
  IF Len(itemsArr) = 0 THEN [before |-> NoCursor, after |-> NoCursor]
  ELSE IF before # NoCursor
  THEN LET r == Reverse(itemsArr)
       IN [after |-> encodeCursor(r[Len(r)].published, r[Len(r)].id),
           before |-> IF hasMore THEN encodeCursor(r[1].published, r[1].id)
                      ELSE NoCursor]
  ELSE [after |-> IF hasMore
                  THEN encodeCursor(itemsArr[Len(itemsArr)].published,
                                    itemsArr[Len(itemsArr)].id)
                  ELSE NoCursor,
        before |-> encodeCursor(itemsArr[1].published, itemsArr[1].id)]

\* transformToJf2(item, userId)
transformToJf2(item, userId) ==
  [id |-> item.id, uid |-> item.uid, url |-> item.url,
   published |-> item.published, content |-> item.content,
   isRead |-> IF userId # NoUser THEN userId \in item.readBy ELSE FALSE]

\* the base query without `_stripped: {$ne: true}`
baseQueryWithSkeletons(its, channelId, userId, showRead) ==
  {i \in its : /\ i.channelId = channelId
               /\ (userId # NoUser /\ ~showRead) => userId \notin i.readBy}

\* baseQuery = {channelId, _stripped: {$ne: true}} and, unless showRead,
\* readBy: {$ne: userId}
baseQuery(its, channelId, userId, showRead) ==
  {i \in its : /\ i.channelId = channelId
               /\ ~i.stripped
               /\ (userId # NoUser /\ ~showRead) => userId \notin i.readBy}

\* getTimelineItems(application, channelId, {before, after, limit, userId, showRead}).
\* jf2Items is mapped from the array before generatePagingCursors reverses it.
getTimelineItems(its, channelId, before, after, limit, userId, showRead) ==
  LET lim == parseLimit(limit)
      query == buildPaginationQuery(baseQuery(its, channelId, userId, showRead),
                                    before, after)
      sorted == IF buildPaginationSort(before) = "asc"
                THEN Reverse(SortDesc(query)) ELSE SortDesc(query)
      fetched == Limit(sorted, lim + 1)
      hasMore == Len(fetched) > lim
      itemsArr == IF hasMore THEN SubSeq(fetched, 1, Len(fetched) - 1) ELSE fetched
      jf2Items == [k \in 1..Len(itemsArr) |-> transformToJf2(itemsArr[k], userId)]
  IN [items |-> jf2Items,
      paging |-> generatePagingCursors(itemsArr, lim, hasMore, before)]

\* GET ?action=timeline: one call; `mode` says which cursor parameter is sent
GetTimeline(c, userId, showRead, limit, mode, cursor) ==
  /\ LET before == IF mode = "before" THEN cursor ELSE NoCursor
         after == IF mode = "after" THEN cursor ELSE NoCursor
     IN last' = [op |-> "timeline", channelId |-> c, userId |-> userId,
                 showRead |-> showRead, limit |-> limit,
                 before |-> before, after |-> after,
                 result |-> getTimelineItems(items, c, before, after, limit,
                                             userId, showRead)]
  /\ UNCHANGED <<ext, now, feeds, nextFeedId, items, nextId, procs, runs, streak, ctl>>

\* a client reads the first page of a timeline ...
WalkStart(c, userId, showRead, limit) ==
  /\ LET r == getTimelineItems(items, c, NoCursor, NoCursor, limit, userId, showRead)
     IN last' = [op |-> "walk", channelId |-> c, userId |-> userId,
                 showRead |-> showRead, limit |-> limit,
                 pages |-> <<r.items>>, after |-> r.paging.after]
  /\ UNCHANGED <<ext, now, feeds, nextFeedId, items, nextId, procs, runs, streak, ctl>>

\* ... and then follows the `after` cursor of the page it has
WalkNext ==
  /\ last.op = "walk"
  /\ last.after # NoCursor
  /\ LET r == getTimelineItems(items, last.channelId, NoCursor, last.after,
                               last.limit, last.userId, last.showRead)
     IN last' = [last EXCEPT !.pages = Append(@, r.items),
                             !.after = r.paging.after]
  /\ UNCHANGED <<ext, now, feeds, nextFeedId, items, nextId, procs, runs, streak, ctl>>

\* ------------------------------------------------------------------------
\* polling/scheduler.js: the clock between two timer periods
\* ------------------------------------------------------------------------
POLL_INTERVAL == 60 * 1000

Tick ==
  /\ now < MaxNow
  /\ now' = now + POLL_INTERVAL
  /\ last' = NoObs
  /\ UNCHANGED <<ext, feeds, nextFeedId, items, nextId, procs, runs, streak, ctl>>


Init ==
  /\ now = 0
  /\ feeds = {}
  /\ nextFeedId = 1
  /\ items = {}
  /\ nextId = 1
  /\ procs = [p \in ProcIds |-> IdleProc]
  /\ runs = 0
  /\ streak = [f \in 1..MaxFeedId |-> -1]
  /\ last = NoObs
  /\ channels = {}
  /\ nextChannelId = 1
  /\ calls = [k \in CallIds |-> NoCall]
  /\ isRunning = FALSE
  /\ blocked = {}
  /\ notifications = {}
  /\ nextNotificationId = 1

\* ------------------------------------------------------------------------
\* SpecPoll: one feed polled and refreshed, one processFeed at a time
\* ------------------------------------------------------------------------
NextPoll ==
  \/ CreateFeed(1, 1)
  \/ Tick
  \/ \E f \in feeds : StartProcessFeed(1, f, "poll")
  \/ \E f \in feeds : StartProcessFeed(1, f, "refresh")
  \/ FetchNotModified(1)
  \/ FetchError(1)
  \/ \E S \in SUBSET {1} : FetchOk(1, S)
  \/ AddItemFind(1)
  \/ AddItemInsert(1, None)
  \/ FinishProcessFeed(1)
  \/ CatchProcessFeed(1)
  \/ RemoveItems(1, {[kind |-> "uid", v |-> 1]})

SpecPoll == Init /\ [][NextPoll]_vars

\* ------------------------------------------------------------------------
\* Tier adjustment (checked under SpecPoll)
\* ------------------------------------------------------------------------
\* the rule as section 8.2 of the specification words it
TierRuleAsStated(t, u, hasNewItems) ==
  IF hasNewItems THEN <<Max(0, t - 1), 0>>
  ELSE IF u + 1 >= Max(2, t) THEN <<Min(10, t + 1), 0>>
  ELSE <<t, u + 1>>

\* the same rule with the promotion limited to tiers below 10
TierRuleBelowMax(t, u, hasNewItems) ==
  IF hasNewItems THEN <<Max(0, t - 1), 0>>
  ELSE IF u + 1 >= Max(2, t) /\ t < 10 THEN <<t + 1, 0>>
  ELSE <<t, u + 1>>

SuccessKinds == {"new", "empty", "304"}

\* C3 as stated: after a successful fetch or a 304 the stored (tier,
\* unmodified) is the stated rule applied to the (tier, unmodified) of the
\* feed document processFeed was given; the promotion step resets unmodified
\* to 0 at every tier, tier 10 included.
C3_TierRuleAsStated ==
  (last.op = "update" /\ last.kind \in SuccessKinds) =>
    \A f \in FeedById(last.feedId) :
       <<f.tier, f.unmodified>> =
         TierRuleAsStated(last.fromTier, last.fromUnmodified, last.kind = "new")

\* C3 amended: new items give tier max(0,t-1) and unmodified 0; no new items
\* give unmodified u+1, unless u+1 >= max(2,t) and t < 10, in which case the
\* tier becomes t+1 and unmodified 0.  At tier 10 the counter keeps growing.
C3_TierRule ==
  (last.op = "update" /\ last.kind \in SuccessKinds) =>
    \A f \in FeedById(last.feedId) :
       <<f.tier, f.unmodified>> =
         TierRuleBelowMax(last.fromTier, last.fromUnmodified, last.kind = "new")

\* a fetch without new items has been persisted for a feed at tier 10 whose
\* counter had reached the threshold
C3_Witness ==
  /\ last.op = "update"
  /\ last.kind \in {"empty", "304"}
  /\ last.fromTier = 10
  /\ last.fromUnmodified + 1 >= 10
  /\ \E f \in FeedById(last.feedId) : f.unmodified = last.fromUnmodified + 1

\* C4: after every update by processFeed the stored nextFetchAt is the update
\* time (lastFetchedAt) plus 2^tier minutes, for the tier stored by that update.
C4_IntervalLaw ==
  \A f \in feeds :
     f.lastFetchedAt # None =>
        f.nextFetchAt = f.lastFetchedAt + (2 ^ f.tier) * 60 * 1000

\* C5 as stated: fifteen successive fetches without new items, starting at
\* tier 1 with unmodified 0, leave the feed at tier 10.
C5_FifteenReachTen ==
  \A f \in feeds : streak[f.id] = 15 => f.tier = 10

\* C5 amended: those fifteen fetches leave the feed at tier 5 with unmodified 4
\* (the promotions take 2, 2, 3 and 4 fetches; the fifth needs 5 and has had 4).
C5_FifteenReachFive ==
  \A f \in feeds : streak[f.id] = 15 => f.tier = 5 /\ f.unmodified = 4

\* a feed has had fifteen successive fetches without new items since (1, 0)
C5_Witness ==
  \E f \in feeds : streak[f.id] = 15

\* C27: every stored feed has a tier in 0..10 and an unmodified counter
\* that is not negative.
C27_TierInRange ==
  \A f \in feeds : f.tier \in 0..10 /\ f.unmodified >= 0

\* a fetch without new items has been persisted for a feed at tier 10 that
\* has failed before
C27_Witness ==
  /\ last.op = "update"
  /\ last.kind \in {"empty", "304"}
  /\ last.fromTier = 10
  /\ \E f \in FeedById(last.feedId) : f.tier = 10 /\ f.lastError

\* C28: after a failed processFeed on a feed stored with (t, u), the stored
\* tier is min(10, t'+1) and the stored unmodified is u', where (t', u') is
\* what the rule for a fetch without new items yields from (t, u).
C28_ErrorOneStepBeyond ==
  (last.op = "update" /\ last.kind = "error") =>
    \A f \in FeedById(last.feedId) :
       LET rule == TierRuleBelowMax(last.fromTier, last.fromUnmodified, FALSE)
       IN f.tier = Min(10, rule[1] + 1) /\ f.unmodified = rule[2]

\* C29: after a successful processFeed the feed has status active,
\* consecutiveErrors 0 and no lastError; after a failed one it has status
\* error, lastError set and consecutiveErrors one more than before.
C29_StatusFollowsOutcome ==
  (last.op = "update" /\ last.applied) =>
    \A f \in FeedById(last.feedId) :
       IF last.kind \in SuccessKinds
       THEN f.status = "active" /\ f.consecutiveErrors = 0 /\ ~f.lastError
       ELSE /\ f.status = "error"
            /\ f.lastError
            /\ f.consecutiveErrors = last.fromConsecutiveErrors + 1

\* ------------------------------------------------------------------------
\* SpecStore: the item store under sequential calls of its operations
\* ------------------------------------------------------------------------
\* publication date of the feed entry with a given uid: entries 1 and 2 tie
PubOf(uid) == 1000 * ((uid + 1) \div 2)

\* entry ids a client sends: the sentinel, an internal id, uids, and a url
\* that two items share
UidEntries == {[kind |-> "uid", v |-> u] : u \in Uids}

Entries ==
  {LastReadEntry, [kind |-> "id", v |-> 1], [kind |-> "url", v |-> ItemUrl(1)]}
    \cup UidEntries

NextStore ==
  \/ \E u \in Uids : AddItem(1, 1, u, PubOf(u))
  \/ \E e \in Entries, o \in Owners : MarkItemsRead(1, {e}, o)
  \/ \E e \in UidEntries, o \in Owners : MarkItemsUnread(1, {e}, o)
  \/ \E e \in UidEntries : RemoveItems(1, {e})

SpecStore == Init /\ [][NextStore]_vars

\* ------------------------------------------------------------------------
\* A reader paging through a channel while items arrive and are marked read
\* ------------------------------------------------------------------------
Limits == {None, 2}

\* cursors a client can hold: those of documents in the store
Cursors == {encodeCursor(i.published, i.id) : i \in items}

NextTimeline ==
  \/ \E u \in Uids : AddItem(1, 1, u, PubOf(u))
  \/ \E u \in Uids : MarkItemsRead(1, {[kind |-> "uid", v |-> u]}, "A")
  \/ MarkItemsRead(1, {LastReadEntry}, "A")
  \/ \E showRead \in BOOLEAN, limit \in Limits, cursor \in Cursors,
        mode \in {"before", "after"} :
        GetTimeline(1, "A", showRead, limit, mode, cursor)
  \/ \E showRead \in BOOLEAN, limit \in Limits :
        GetTimeline(1, "A", showRead, limit, "first", NoCursor)
  \/ \E showRead \in BOOLEAN, limit \in Limits : WalkStart(1, "A", showRead, limit)
  \/ WalkNext

SpecTimeline == Init /\ [][NextTimeline]_vars

\* ------------------------------------------------------------------------
\* websub/subscriber.js and websub/handler.js
\* ------------------------------------------------------------------------
Secrets == {1, 2}
Algorithms == {"sha1", "sha256"}

\* request bodies: 0 does not parse as a feed, body b > 0 is a feed whose
\* only entry has uid b
Bodies == {0, 1, 2}

\* crypto.createHmac(algo, secret).update(body).digest(): the tag of an
\* ideal MAC, different for different (algo, secret, body)
createHmac(algo, secret, body) == [algo |-> algo, key |-> secret, msg |-> body]

\* digest("hex"): the hex string of a tag; `tail` is what follows the hex digits
digestHex(tag) == [bytes |-> tag, tail |-> ""]

\* Buffer.from(hash, "hex"): decoding stops at the first character that is
\* not a hex digit
BufferFromHex(hash) == hash.bytes

\* a request without signature header
NoSignature == [algorithm |-> "", hash |-> digestHex(createHmac("", None, None))]

\* header values "<algorithm>=<hash>" a sender can build: the hex HMAC of
\* some feed body under some secret, possibly followed by other characters
Signatures ==
  {[algorithm |-> a, hash |-> [bytes |-> createHmac(a, k, m), tail |-> t]] :
     a \in Algorithms, k \in Secrets, m \in Bodies \ {0}, t \in {"", "zz"}}

\* rawBody: request.body if it is a string, else JSON.stringify(request.body);
\* the model's bodies are what this yields
rawBody(body) == body

\* verifySignature that accepts every well-formed header
verifySignatureFormatOnly(signature, body, secret) ==
  signature # NoSignature /\ secret # None

\* verifySignature(signature, body, secret)
verifySignature(signature, body, secret) ==
  /\ signature # NoSignature
  /\ secret # None
  /\ BufferFromHex(signature.hash)
       = BufferFromHex(digestHex(createHmac(signature.algorithm, secret, body)))

\* parseFeed(content, feed.url, {contentType}): the uids of the entries, or
\* an exception for body 0
parseFeedThrows(body) == body = 0
parseFeed(body) == IF body = 0 THEN {} ELSE {body}

\* subscribe(application, feed, callbackUrl) with a fresh secret, the hub
\* answering with the given status: on 202 and 204 updateFeedWebsub is called
\* with {hub, topic, secret, pending: true}
Subscribe(f, secret, status) ==
  /\ f \in feeds
  /\ f.websub.hub # None
  /\ feeds' = IF status \in {202, 204}
              THEN updateFeedWebsub(feeds, f.id,
                                    [hub |-> f.websub.hub,
                                     topic |-> IF f.websub.topic # None
                                               THEN f.websub.topic ELSE f.url,
                                     secret |-> secret, leaseSeconds |-> None,
                                     pending |-> TRUE], now)
              ELSE feeds
  /\ last' = [op |-> "subscribe", feedId |-> f.id, secret |-> secret,
              status |-> status, before |-> f.websub]
  /\ UNCHANGED <<ext, now, nextFeedId, items, nextId, procs, runs, streak, ctl>>

\* the first subscription of a feed, accepted by the hub
WebsubSubscribed(f, secret) ==
  /\ f \in feeds
  /\ f.websub.secret = None
  /\ Subscribe(f, secret, 202)

\* the status receive() answers
receiveStatus(id, signature, body) ==
  IF FeedById(id) = {} THEN 404
  ELSE LET feed == CHOOSE f \in feeds : f.id = id
       IN IF feed.websub.secret # None
          THEN IF signature = NoSignature THEN 401
               ELSE IF ~verifySignature(signature, rawBody(body), feed.websub.secret)
               THEN 401 ELSE 200
          ELSE 200

\* receive(request, response): POST /websub/:id; after answering 200,
\* setImmediate runs processWebsubContent, which parses the body and calls
\* processFeed with the feed document read at the top of receive
Receive(p, id, signature, body) ==
  /\ procs[p].pc = "idle"
  /\ LET status == receiveStatus(id, signature, body)
         started == status = 200 /\ ~parseFeedThrows(body)
         feed == IF FeedById(id) = {} THEN NoFeed
                 ELSE CHOOSE f \in feeds : f.id = id
     IN /\ started => feed.unmodified < MaxUnmodified
        /\ procs' = IF started
                    THEN [procs EXCEPT ![p] =
                            [pc |-> "fetch", feed |-> feed, parsed |-> <<>>,
                             newItemCount |-> 0, origin |-> "push",
                             pushed |-> parseFeed(body), channel |-> {}]]
                    ELSE procs
        /\ runs' = IF started THEN Min(runs + 1, MaxRuns) ELSE runs
        /\ last' = [op |-> "receive", feedId |-> id,
                    secret |-> IF feed = NoFeed THEN None ELSE feed.websub.secret,
                    signature |-> signature, body |-> body,
                    status |-> status, started |-> started]
  /\ UNCHANGED <<ext, now, feeds, nextFeedId, items, nextId, streak, ctl>>

\* ------------------------------------------------------------------------
\* SpecWebsub: a feed is polled (run 1), subscribed at its hub, and receives
\* pushes (run 2)
\* ------------------------------------------------------------------------
NextWebsub ==
  \/ CreateFeed(1, 1)
  \/ \E f \in feeds : runs < MaxRuns /\ StartProcessFeed(1, f, "poll")
  \/ \E f \in feeds, secret \in Secrets : WebsubSubscribed(f, secret)
  \/ \E id \in {1, 2}, body \in Bodies,
        signature \in Signatures \cup {NoSignature} :
        runs < MaxRuns /\ Receive(2, id, signature, body)
  \/ \E p \in {1, 2} : FetchNotModified(p)
  \/ \E p \in {1, 2} : FetchError(p)
  \/ \E p \in {1, 2}, S \in SUBSET {1, 2} : FetchOk(p, S)
  \/ \E p \in {1, 2} : AddItemFind(p)
  \/ \E p \in {1, 2} : AddItemInsert(p, None)
  \/ \E p \in {1, 2} : FinishProcessFeed(p)
  \/ \E p \in {1, 2} : CatchProcessFeed(p)

SpecWebsub == Init /\ [][NextWebsub]_vars

C12_PushKeepsSchedule ==
  [][(last'.op = "update" /\ last'.origin = "push")
      => \A f \in feeds : \E g \in feeds' : /\ g.id = f.id
                                            /\ g.tier = f.tier
                                            /\ g.unmodified = f.unmodified
                                            /\ g.nextFetchAt = f.nextFetchAt]_vars

\* C13: when the processing of an accepted push has finished, every entry
\* parsed from the pushed body is in the store, whatever the fetch returned.
C13_PushedItemsPersisted ==
  (last.op = "update" /\ last.origin = "push")
    => \A u \in last.pushed :
         \E i \in items : i.feedId = last.feedId /\ i.uid = u

\* ------------------------------------------------------------------------
\* polling/scheduler.js: runSchedulerCycle
\* ------------------------------------------------------------------------
BATCH_CONCURRENCY == 5

\* the guard that never skips
preventOverlapNever(running) == FALSE

\* "Prevent overlapping runs": if (isRunning) return
\* the guard that always skips
preventOverlapAlways(running) == TRUE

\* if (isRunning) return
preventOverlap(running) == running

\* runs of processFeed started by processFeedBatch and not yet returned
PollRuns == {p \in DOMAIN procs : procs[p].pc # "idle" /\ procs[p].origin = "poll"}

\* a batch that takes the whole queue at once
batchSliceAll(queue) == queue

\* feeds.slice(index, index + concurrency) at the head of what is left
batchSlice(queue) == SubSeq(queue, 1, Min(BATCH_CONCURRENCY, Len(queue)))

\* setInterval callback (or the call in startScheduler): runSchedulerCycle up
\* to `await getFeedsToFetch`; k is the slot of this invocation
TickCycle(k) ==
  /\ calls[k] = NoCall
  /\ IF preventOverlap(isRunning)
     THEN /\ last' = [op |-> "cycle", skipped |-> TRUE]
          /\ UNCHANGED <<calls, isRunning>>
     ELSE /\ isRunning' = TRUE
          /\ calls' = [calls EXCEPT ![k] = [fn |-> "runSchedulerCycle",
                                            pc |-> "query", queue |-> <<>>,
                                            due |-> {}, started |-> <<>>]]
          /\ last' = [op |-> "cycle", skipped |-> FALSE]
  /\ UNCHANGED <<ext, now, feeds, nextFeedId, items, nextId, procs, runs, streak, channels, nextChannelId>>

\* getFeedsToFetch returned; with no feed due the cycle ends at once
CycleQuery(k) ==
  /\ calls[k].fn = "runSchedulerCycle"
  /\ calls[k].pc = "query"
  /\ LET due == getFeedsToFetch(now)
         ids == AscSeq({f.id : f \in due})
         queue == [j \in 1..Len(ids) |-> CHOOSE f \in due : f.id = ids[j]]
     IN /\ IF due = {}
           THEN /\ isRunning' = FALSE
                /\ calls' = [calls EXCEPT ![k] = NoCall]
           ELSE /\ calls' = [calls EXCEPT ![k].pc = "batch", ![k].queue = queue,
                                          ![k].due = {f.id : f \in due}]
                /\ UNCHANGED isRunning
        /\ last' = [op |-> "cycleQuery", due |-> {f.id : f \in due}]
  /\ UNCHANGED <<ext, now, feeds, nextFeedId, items, nextId, procs, runs, streak, channels, nextChannelId>>

\* processFeedBatch: once the previous batch has returned, processFeed is
\* called for the next BATCH_CONCURRENCY feeds of the queue
CycleBatch(k) ==
  /\ calls[k].fn = "runSchedulerCycle"
  /\ calls[k].pc = "batch"
  /\ calls[k].queue # <<>>
  /\ PollRuns = {}
  /\ LET queue == calls[k].queue
         n == Len(batchSlice(queue))
         slots == AscSeq({p \in DOMAIN procs : procs[p].pc = "idle"})
     IN /\ n <= Len(slots)
        /\ \A j \in 1..n : queue[j].unmodified < MaxUnmodified
        /\ procs' = [p \in DOMAIN procs |->
                       IF \E j \in 1..n : slots[j] = p
                       THEN [pc |-> "fetch",
                             feed |-> queue[CHOOSE j \in 1..n : slots[j] = p],
                             parsed |-> <<>>, newItemCount |-> 0,
                             origin |-> "poll", pushed |-> {},
                             channel |-> {}]
                       ELSE procs[p]]
        /\ runs' = Min(runs + n, MaxRuns)
        /\ calls' = [calls EXCEPT
                       ![k].queue = SubSeq(queue, n + 1, Len(queue)),
                       ![k].started = @ \o [j \in 1..n |-> queue[j].id]]
  /\ last' = NoObs
  /\ UNCHANGED <<ext, now, feeds, nextFeedId, items, nextId, streak, channels, nextChannelId, isRunning>>

\* the last batch has returned: finally { isRunning = false }
CycleEnd(k) ==
  /\ calls[k].fn = "runSchedulerCycle"
  /\ calls[k].pc = "batch"
  /\ calls[k].queue = <<>>
  /\ PollRuns = {}
  /\ isRunning' = FALSE
  /\ calls' = [calls EXCEPT ![k] = NoCall]
  /\ last' = [op |-> "cycleEnd", due |-> calls[k].due, started |-> calls[k].started]
  /\ UNCHANGED <<ext, now, feeds, nextFeedId, items, nextId, procs, runs, streak, channels, nextChannelId>>

\* ------------------------------------------------------------------------
\* SpecSched: the interval timer fires while cycles are running
\* ------------------------------------------------------------------------
NextSched ==
  \/ CreateFeed(1, 1)
  \/ Tick
  \/ \E k \in CallIds : runs < MaxRuns /\ TickCycle(k)
  \/ \E k \in CallIds : CycleQuery(k)
  \/ \E k \in CallIds : CycleBatch(k)
  \/ \E k \in CallIds : CycleEnd(k)
  \/ \E p \in ProcIds : FetchNotModified(p)
  \/ \E p \in ProcIds : FetchError(p)
  \/ \E p \in ProcIds : FetchOk(p, {1})
  \/ \E p \in ProcIds : AddItemFind(p)
  \/ \E p \in ProcIds : AddItemInsert(p, None)
  \/ \E p \in ProcIds : FinishProcessFeed(p)
  \/ \E p \in ProcIds : CatchProcessFeed(p)

SpecSched == Init /\ [][NextSched]_vars

\* C14: at any time at most one processFeed invocation is in progress for a
\* feed, whoever started it (scheduler, refreshFeedNow, WebSub push).
C14_OneRunPerFeed ==
  \A p, q \in ProcIds :
    (p # q /\ procs[p].pc # "idle" /\ procs[q].pc # "idle")
      => procs[p].feed.id # procs[q].feed.id

\* C15: at most one scheduler cycle is past the guard at any time, and a
\* tick that finds a cycle running starts no processFeed, keeps no record of
\* itself and leaves isRunning alone.
C15_OneCycle ==
  [][/\ Cardinality({k \in CallIds : calls'[k].fn = "runSchedulerCycle"}) <= 1
     /\ (last'.op = "cycle" /\ last'.skipped)
          => UNCHANGED <<procs, calls, isRunning, feeds, items>>]_vars

\* C15 witness: a tick was skipped while the running cycle had a processFeed
\* in flight
C15_Witness ==
  /\ last.op = "cycle"
  /\ last.skipped
  /\ PollRuns # {}
  /\ Cardinality({k \in CallIds : calls[k].fn = "runSchedulerCycle"}) = 1

\* ------------------------------------------------------------------------
\* storage/channels.js
\* ------------------------------------------------------------------------
\* createChannel(application, {name, userId})
CreateChannel(userId) ==
  /\ nextChannelId <= MaxChannelId
  /\ channels' = channels \cup
                   {newChannel(nextChannelId, UidPool[nextChannelId], userId)}
  /\ nextChannelId' = nextChannelId + 1
  /\ last' = NoObs
  /\ UNCHANGED <<ext, now, feeds, nextFeedId, items, nextId, procs, runs, streak,
                 calls, isRunning>>

\* ensureNotificationsChannel, first half:
\* existing = await collection.findOne({uid: "notifications", userId})
EnsureNotificationsFind(k, userId) ==
  /\ calls[k] = NoCall
  /\ IF getChannel(channels, StringKey("notifications"), userId) # {}
     THEN /\ last' = [op |-> "ensureNotificationsChannel", userId |-> userId,
                      created |-> FALSE]
          /\ UNCHANGED calls
     ELSE /\ calls' = [calls EXCEPT ![k] = [fn |-> "ensureNotificationsChannel",
                                            userId |-> userId]]
          /\ last' = NoObs
  /\ UNCHANGED <<ext, now, feeds, nextFeedId, items, nextId, procs, runs, streak,
                 channels, nextChannelId, isRunning>>

\* ensureNotificationsChannel, second half: await collection.insertOne(channel);
\* microsub_channels has no unique index
EnsureNotificationsInsert(k) ==
  /\ calls[k].fn = "ensureNotificationsChannel"
  /\ nextChannelId <= MaxChannelId
  /\ channels' = channels \cup
                   {newChannel(nextChannelId, "notifications", calls[k].userId)}
  /\ nextChannelId' = nextChannelId + 1
  /\ calls' = [calls EXCEPT ![k] = NoCall]
  /\ last' = [op |-> "ensureNotificationsChannel", userId |-> calls[k].userId,
              created |-> TRUE]
  /\ UNCHANGED <<ext, now, feeds, nextFeedId, items, nextId, procs, runs, streak,
                 isRunning>>

\* deleteChannel(application, uid, userId), up to `await collection.findOne(query)`
DeleteChannelFind(k, uid, userId) ==
  /\ calls[k] = NoCall
  /\ LET found == getChannel(channels, StringKey(uid), userId)
     IN IF uid = "notifications" \/ found = {}
        THEN /\ last' = [op |-> "deleteChannel", uid |-> uid, userId |-> userId,
                         channelId |-> None, result |-> FALSE]
             /\ UNCHANGED calls
        ELSE /\ calls' = [calls EXCEPT ![k] =
                            [fn |-> "deleteChannel", pc |-> "items", uid |-> uid,
                             userId |-> userId,
                             channel |-> CHOOSE c \in found : TRUE]]
             /\ last' = NoObs
  /\ UNCHANGED <<ext, now, feeds, nextFeedId, items, nextId, procs, runs, streak,
                 channels, nextChannelId, isRunning>>

\* deleteChannel: await deleteItemsForChannel(application, channel._id)
DeleteChannelItems(k) ==
  /\ calls[k].fn = "deleteChannel"
  /\ calls[k].pc = "items"
  /\ items' = {i \in items : i.channelId # calls[k].channel.id}
  /\ calls' = [calls EXCEPT ![k].pc = "feeds"]
  /\ last' = [op |-> "deleteItemsForChannel", channelId |-> calls[k].channel.id]
  /\ UNCHANGED <<ext, now, feeds, nextFeedId, nextId, procs, runs, streak,
                 channels, nextChannelId, isRunning>>

\* deleteChannel: await deleteFeedsForChannel(application, channel._id)
DeleteChannelFeeds(k) ==
  /\ calls[k].fn = "deleteChannel"
  /\ calls[k].pc = "feeds"
  /\ feeds' = {f \in feeds : f.channelId # calls[k].channel.id}
  /\ calls' = [calls EXCEPT ![k].pc = "channel"]
  /\ last' = [op |-> "deleteFeedsForChannel", channelId |-> calls[k].channel.id]
  /\ UNCHANGED <<ext, now, nextFeedId, items, nextId, procs, runs, streak,
                 channels, nextChannelId, isRunning>>

\* deleteChannel: await collection.deleteOne({_id}); return deletedCount > 0
DeleteChannelDoc(k) ==
  /\ calls[k].fn = "deleteChannel"
  /\ calls[k].pc = "channel"
  /\ channels' = {c \in channels : c.id # calls[k].channel.id}
  /\ calls' = [calls EXCEPT ![k] = NoCall]
  /\ last' = [op |-> "deleteChannel", uid |-> calls[k].uid,
              userId |-> calls[k].userId, channelId |-> calls[k].channel.id,
              result |-> \E c \in channels : c.id = calls[k].channel.id]
  /\ UNCHANGED <<ext, now, feeds, nextFeedId, items, nextId, procs, runs, streak,
                 nextChannelId, isRunning>>

\* ------------------------------------------------------------------------
\* SpecChannels: webmentions ensure the notifications channel while
\* channels are created and deleted
\* ------------------------------------------------------------------------
NextChannels ==
  \/ \E o \in Owners : CreateChannel(o)
  \/ \E c \in channels : CreateFeed(c.id, 1)
  \/ \E f \in feeds : AddItem(f.channelId, f.id, 1, None)
  \/ \E k \in CallIds, o \in Owners : EnsureNotificationsFind(k, o)
  \/ \E k \in CallIds : EnsureNotificationsInsert(k)
  \/ \E k \in CallIds, o \in Owners, uid \in {"notifications", "c1", "c2"} :
        DeleteChannelFind(k, uid, o)
  \/ \E k \in CallIds : DeleteChannelItems(k)
  \/ \E k \in CallIds : DeleteChannelFeeds(k)
  \/ \E k \in CallIds : DeleteChannelDoc(k)

SpecChannels == Init /\ [][NextChannels]_vars

\* C16: every owner has at most one channel with uid "notifications", and a
\* deleteChannel on it returns false and changes nothing.
C16_OneNotificationsChannel ==
  [][/\ \A o \in Owners :
          Cardinality({c \in channels' : c.uid = "notifications"
                                         /\ c.userId = o}) <= 1
     /\ (last'.op = "deleteChannel" /\ last'.uid = "notifications")
          => (~last'.result /\ UNCHANGED <<channels, feeds, items, calls>>)]_vars

\* C18: deleteChannel deletes the items of the channel only after its feeds,
\* and when it has returned true no feed and no item of the channel is left.
C18_FeedsThenItems ==
  [][/\ last'.op = "deleteItemsForChannel"
          => ~ \E f \in feeds : f.channelId = last'.channelId
     /\ (last'.op = "deleteChannel" /\ last'.result)
          => /\ ~ \E f \in feeds' : f.channelId = last'.channelId
             /\ ~ \E i \in items' : i.channelId = last'.channelId]_vars

\* ------------------------------------------------------------------------
\* controllers/follow.js: follow and unfollow, with createFeed and deleteFeed
\* ------------------------------------------------------------------------
\* follow, up to `await getChannel(application, channel, userId)`
FollowGetChannel(k, uid, url, userId) ==
  /\ calls[k] = NoCall
  /\ LET found == getChannel(channels, StringKey(uid), userId)
     IN IF found = {}
        THEN /\ last' = [op |-> "follow", status |-> 404]
             /\ UNCHANGED calls
        ELSE /\ calls' = [calls EXCEPT ![k] =
                            [fn |-> "follow", pc |-> "find", url |-> url,
                             channelId |-> (CHOOSE c \in found : TRUE).id]]
             /\ last' = NoObs
  /\ UNCHANGED <<ext, now, feeds, nextFeedId, items, nextId, procs, runs, streak,
                 channels, nextChannelId, isRunning>>

\* createFeed, first half: existing = await collection.findOne({channelId, url});
\* an existing feed is returned and follow answers 201
CreateFeedFind(k) ==
  /\ calls[k].fn = "follow"
  /\ calls[k].pc = "find"
  /\ IF \E f \in feeds : f.channelId = calls[k].channelId /\ f.url = calls[k].url
     THEN /\ calls' = [calls EXCEPT ![k] = NoCall]
          /\ last' = [op |-> "createFeed", channelId |-> calls[k].channelId,
                      url |-> calls[k].url, created |-> FALSE]
     ELSE /\ calls' = [calls EXCEPT ![k].pc = "insert"]
          /\ last' = NoObs
  /\ UNCHANGED <<ext, now, feeds, nextFeedId, items, nextId, procs, runs, streak,
                 channels, nextChannelId, isRunning>>

\* createFeed, second half: await collection.insertOne(feed); microsub_feeds
\* has no unique index
CreateFeedInsert(k) ==
  /\ calls[k].fn = "follow"
  /\ calls[k].pc = "insert"
  /\ nextFeedId <= MaxFeedId
  /\ feeds' = feeds \cup {newFeed(nextFeedId, calls[k].channelId, calls[k].url, now)}
  /\ nextFeedId' = nextFeedId + 1
  /\ streak' = [streak EXCEPT ![nextFeedId] = 0]
  /\ calls' = [calls EXCEPT ![k] = NoCall]
  /\ last' = [op |-> "createFeed", channelId |-> calls[k].channelId,
              url |-> calls[k].url, created |-> TRUE]
  /\ UNCHANGED <<ext, now, items, nextId, procs, runs, channels, nextChannelId, isRunning>>

\* unfollow, up to `await getChannel(application, channel, userId)`
UnfollowGetChannel(k, uid, url, userId) ==
  /\ calls[k] = NoCall
  /\ LET found == getChannel(channels, StringKey(uid), userId)
     IN IF found = {}
        THEN /\ last' = [op |-> "unfollow", status |-> 404]
             /\ UNCHANGED calls
        ELSE /\ calls' = [calls EXCEPT ![k] =
                            [fn |-> "unfollow", pc |-> "find", url |-> url,
                             channelId |-> (CHOOSE c \in found : TRUE).id,
                             feedId |-> None]]
             /\ last' = NoObs
  /\ UNCHANGED <<ext, now, feeds, nextFeedId, items, nextId, procs, runs, streak,
                 channels, nextChannelId, isRunning>>

\* deleteFeed: feed = await collection.findOne({channelId, url})
DeleteFeedFind(k) ==
  /\ calls[k].fn = "unfollow"
  /\ calls[k].pc = "find"
  /\ LET found == {f \in feeds : f.channelId = calls[k].channelId
                                 /\ f.url = calls[k].url}
     IN IF found = {}
        THEN /\ calls' = [calls EXCEPT ![k] = NoCall]
             /\ last' = [op |-> "deleteFeed", feedId |-> None, result |-> FALSE]
        ELSE /\ calls' = [calls EXCEPT ![k].pc = "items",
                                       ![k].feedId = (CHOOSE f \in found : TRUE).id]
             /\ last' = NoObs
  /\ UNCHANGED <<ext, now, feeds, nextFeedId, items, nextId, procs, runs, streak,
                 channels, nextChannelId, isRunning>>

\* deleteFeed: await deleteItemsForFeed(application, feed._id)
DeleteFeedItems(k) ==
  /\ calls[k].fn = "unfollow"
  /\ calls[k].pc = "items"
  /\ items' = {i \in items : i.feedId # calls[k].feedId}
  /\ calls' = [calls EXCEPT ![k].pc = "feed"]
  /\ last' = NoObs
  /\ UNCHANGED <<ext, now, feeds, nextFeedId, nextId, procs, runs, streak,
                 channels, nextChannelId, isRunning>>

\* deleteFeed: await collection.deleteOne({_id: feed._id}); return deletedCount > 0
DeleteFeedDoc(k) ==
  /\ calls[k].fn = "unfollow"
  /\ calls[k].pc = "feed"
  /\ feeds' = {f \in feeds : f.id # calls[k].feedId}
  /\ calls' = [calls EXCEPT ![k] = NoCall]
  /\ last' = [op |-> "deleteFeed", feedId |-> calls[k].feedId,
              result |-> \E f \in feeds : f.id = calls[k].feedId]
  /\ UNCHANGED <<ext, now, nextFeedId, items, nextId, procs, runs, streak,
                 channels, nextChannelId, isRunning>>

\* ------------------------------------------------------------------------
\* SpecFollow: follow and unfollow requests overlap each other and the
\* processFeed runs that follow starts
\* ------------------------------------------------------------------------
NextFollow ==
  \/ CreateChannel("A")
  \/ \E k \in CallIds : FollowGetChannel(k, "c1", 1, "A")
  \/ \E k \in CallIds : CreateFeedFind(k)
  \/ \E k \in CallIds : CreateFeedInsert(k)
  \/ \E k \in CallIds : UnfollowGetChannel(k, "c1", 1, "A")
  \/ \E k \in CallIds : DeleteFeedFind(k)
  \/ \E k \in CallIds : DeleteFeedItems(k)
  \/ \E k \in CallIds : DeleteFeedDoc(k)
  \/ \E f \in feeds : runs < MaxRuns /\ StartProcessFeed(1, f, "refresh")
  \/ FetchOk(1, {1})
  \/ FetchError(1)
  \/ AddItemFind(1)
  \/ AddItemInsert(1, None)
  \/ FinishProcessFeed(1)
  \/ CatchProcessFeed(1)

SpecFollow == Init /\ [][NextFollow]_vars

\* C17: no two feeds share (channel, url), and a createFeed that finds the
\* pair present inserts nothing.
C17_UniqueChannelUrl ==
  [][/\ \A f, g \in feeds' : (f.channelId = g.channelId /\ f.url = g.url) => f = g
     /\ (last'.op = "createFeed" /\ ~last'.created) => feeds' = feeds]_vars

\* C19: once a feed has been deleted no item carries its id: every item's
\* feed is in the store.
C19_NoItemsOfDeletedFeed ==
  \A i \in items : \E f \in feeds : f.id = i.feedId

\* updateChannelSettings(application, uid, settings, userId)
UpdateChannelSettings(uid, settings, userId) ==
  /\ getChannel(channels, StringKey(uid), userId) # {}
  /\ channels' = {IF c \in getChannel(channels, StringKey(uid), userId)
                  THEN [c EXCEPT !.settings = settings] ELSE c : c \in channels}
  /\ channels' # channels
  /\ last' = NoObs
  /\ UNCHANGED <<ext, now, feeds, nextFeedId, items, nextId, procs, runs, streak,
                 nextChannelId, calls, isRunning>>

\* ------------------------------------------------------------------------
\* SpecFilter: feeds are polled into a channel whose filters are set
\* between polls
\* ------------------------------------------------------------------------
FilterSettings ==
  {[excludeTypes |-> {"like"}, excludeRegex |-> ""],
   [excludeTypes |-> {}, excludeRegex |-> "spam"]}

NextFilter ==
  \/ CreateChannel("A")
  \/ \E settings \in FilterSettings :
        /\ \A p \in ProcIds : procs[p].pc = "idle"
        /\ UpdateChannelSettings("c1", settings, "A")
  \/ \E c \in channels : CreateFeed(c.id, 1)
  \/ \E f \in feeds : runs < MaxRuns /\ StartProcessFeed(1, f, "poll")
  \/ \E S \in SUBSET {1, 2, 3} : FetchOk(1, S)
  \/ AddItemFind(1)
  \/ AddItemInsert(1, None)
  \/ FinishProcessFeed(1)
  \/ Tick

SpecFilter == Init /\ [][NextFilter]_vars

\* C20: processFeed stores no item whose interaction kind is in the
\* excludeTypes of the channel it goes to, or whose text matches that
\* channel's excludeRegex.
C20_FiltersApplied ==
  [][(last'.op = "addItem" /\ last'.stored)
      => \A c \in channels :
           c.id = last'.channelId
             => /\ detectInteractionType(EntryOf(last'.uid))
                     \notin c.settings.excludeTypes
                /\ c.settings.excludeRegex \notin EntryOf(last'.uid).words]_vars

\* ------------------------------------------------------------------------
\* SpecRace: a scheduled poll, a manual refresh and a WebSub push run
\* processFeed on the same feed and interleave at every await
\* ------------------------------------------------------------------------
Origins == {"poll", "refresh", "push"}

NextRace ==
  \/ CreateFeed(1, 1)
  \/ \E p \in ProcIds, f \in feeds, origin \in Origins :
        runs < MaxRuns /\ StartProcessFeed(p, f, origin)
  \/ \E p \in ProcIds, S \in SUBSET {1, 2} : FetchOk(p, S)
  \/ \E p \in ProcIds : AddItemFind(p)
  \/ \E p \in ProcIds : AddItemInsert(p, None)
  \/ \E p \in ProcIds : FinishProcessFeed(p)
  \/ \E p \in ProcIds : CatchProcessFeed(p)

SpecRace == Init /\ [][NextRace]_vars

\* ------------------------------------------------------------------------
\* Claims about the item store
\* ------------------------------------------------------------------------
\* C1: after addItem for a (channel, uid) the store holds exactly one record
\* with that (channel, uid) and the call did not fail; when a record with that
\* (channel, uid) was already there -- a stripped skeleton included -- the call
\* stored nothing and the store is what it was before the call.
C1_AddItemIdempotent ==
  last.op = "addItem" =>
    /\ ~last.threw
    /\ Cardinality({i \in items : i.channelId = last.channelId
                                  /\ i.uid = last.uid}) = 1
    /\ last.existed => (~last.stored /\ items = last.before)

\* C1 witness: addItem was called for a uid whose record is a stripped skeleton
C1_Witness ==
  /\ last.op = "addItem"
  /\ last.existed
  /\ last.skeleton
  /\ ~last.stored

C6_ReadItemsBounded ==
  last.op = "markRead" =>
    Cardinality({i \in items : /\ i.channelId = last.channelId
                               /\ ~i.stripped
                               /\ last.userId \in i.readBy})
      <= MAX_FULL_READ_ITEMS

C26_ReadStateMachine ==
  /\ \A i \in items : \A o \in Owners : i.stripped => o \in i.readBy
  /\ last.op = "markRead" =>
       \A i \in last.cleaned :
          /\ last.userId \in i.readBy /\ ~i.stripped
          /\ Cardinality({j \in items : /\ j.channelId = last.channelId
                                        /\ last.userId \in j.readBy
                                        /\ Newer(j, i)}) >= MAX_FULL_READ_ITEMS
          /\ IF i.feedId # None THEN Strip(i) \in items
             ELSE \A j \in items : j.id # i.id

\* ------------------------------------------------------------------------
\* Claims about the timeline
\* ------------------------------------------------------------------------
\* the items of a channel an owner can see
Visible(c, userId, showRead) ==
  {i \in items : /\ i.channelId = c
                 /\ ~i.stripped
                 /\ ~showRead => userId \notin i.readBy}

PageIds(page) == {page[k].id : k \in 1..Len(page)}

\* C8: a timeline page holds only stored, non-stripped items of the channel,
\* with showRead=false none that the owner has read; a first page large enough
\* for the channel holds every such item, so with showRead=true the read
\* non-stripped items are returned.
C8_TimelineVisibility ==
  last.op = "timeline" =>
    LET page == last.result.items
        visible == Visible(last.channelId, last.userId, last.showRead)
    IN /\ PageIds(page) \subseteq {i.id : i \in visible}
       /\ (last.before = NoCursor /\ last.after = NoCursor /\ last.limit = None)
            => {i.id : i \in visible} \subseteq PageIds(page)
       /\ \A k \in 1..Len(page) :
            \E i \in visible : /\ i.id = page[k].id
                               /\ page[k].isRead = (last.userId \in i.readBy)

\* C8 witness: a showRead=true page holds an item its owner has read while the
\* channel also holds a stripped skeleton
C8_Witness ==
  /\ last.op = "timeline"
  /\ last.showRead
  /\ \E k \in 1..Len(last.result.items) : last.result.items[k].isRead
  /\ \E i \in items : i.channelId = last.channelId /\ i.stripped

\* C9: every timeline page is listed newest first: published descending,
\* ties broken by id descending.
C9_NewestFirst ==
  last.op = "timeline" =>
    LET page == last.result.items
    IN \A k \in 1..(Len(page) - 1) : Newer(page[k], page[k + 1])

WalkPositions ==
  {<<k, j>> \in (1..Len(last.pages)) \X (1..(MaxItemId + 1)) :
     j <= Len(last.pages[k])}

\* C10: following `after` cursors over an unchanged store, every item of page
\* k+1 is strictly older than the last item of page k, and when no `after`
\* cursor is returned every visible item has been listed exactly once and
\* nothing else; a `before` cursor selects only items strictly newer than it.
C10_CursorWalk ==
  /\ last.op = "walk" =>
       /\ \A k \in 1..(Len(last.pages) - 1) :
            \A j \in 1..Len(last.pages[k + 1]) :
              Newer(last.pages[k][Len(last.pages[k])], last.pages[k + 1][j])
       /\ last.after = NoCursor =>
            LET visible == Visible(last.channelId, last.userId, last.showRead)
            IN /\ \A i \in visible :
                    Cardinality({pos \in WalkPositions :
                                   last.pages[pos[1]][pos[2]].id = i.id}) = 1
               /\ \A pos \in WalkPositions :
                    last.pages[pos[1]][pos[2]].id \in {i.id : i \in visible}
  /\ (last.op = "timeline" /\ last.before # NoCursor) =>
       \A k \in 1..Len(last.result.items) :
         Newer(last.result.items[k],
               [published |-> last.before.t, id |-> last.before.i])

\* C10 witness: a walk has ended after more than one page, and the page
\* boundary fell between two items with the same published date
C10_Witness ==
  /\ last.op = "walk"
  /\ last.after = NoCursor
  /\ Len(last.pages) >= 2
  /\ last.pages[2] # <<>>
  /\ last.pages[1][Len(last.pages[1])].published = last.pages[2][1].published

\* ------------------------------------------------------------------------
\* controllers/block.js and storage/items.js deleteItemsByAuthorUrl
\* ------------------------------------------------------------------------
\* item.author.url of the entry with a given uid: entry 1 is by author 1
AuthorOf(uid) == IF uid = 1 THEN 1 ELSE 2

\* "author.url" of a stored item; stripping unsets author
authorUrl(i) == IF i.content THEN AuthorOf(i.uid) ELSE None

\* block, first await: `collection.findOne({userId, url})`
BlockFind(k, userId, url) ==
  /\ calls[k] = NoCall
  /\ calls' = [calls EXCEPT ![k] =
                 [fn |-> "block", pc |-> "insert", userId |-> userId, url |-> url,
                  existing |-> \E b \in blocked : b.userId = userId /\ b.url = url,
                  channelIds |-> {}]]
  /\ last' = NoObs
  /\ UNCHANGED <<ext, now, feeds, nextFeedId, items, nextId, procs, runs, streak,
                 channels, nextChannelId, isRunning>>

\* block: `if (!existing) await collection.insertOne({userId, url, ...})`
BlockInsert(k) ==
  /\ calls[k].fn = "block"
  /\ calls[k].pc = "insert"
  /\ blocked' = IF calls[k].existing THEN blocked
                ELSE blocked \cup {[userId |-> calls[k].userId, url |-> calls[k].url]}
  /\ calls' = [calls EXCEPT ![k].pc = "channels"]
  /\ last' = NoObs
  /\ UNCHANGED <<now, feeds, nextFeedId, items, nextId, procs, runs, streak,
                 channels, nextChannelId, isRunning, notifications,
                 nextNotificationId>>

\* deleteItemsByAuthorUrl, first await: `channelsCollection.find({userId})`
DeleteItemsByAuthorUrlChannels(k) ==
  /\ calls[k].fn = "block"
  /\ calls[k].pc = "channels"
  /\ calls' = [calls EXCEPT
                 ![k].pc = "delete",
                 ![k].channelIds = {c.id : c \in {d \in channels : d.userId = calls[k].userId}}]
  /\ last' = NoObs
  /\ UNCHANGED <<ext, now, feeds, nextFeedId, items, nextId, procs, runs, streak,
                 channels, nextChannelId, isRunning>>

\* deleteItemsByAuthorUrl, second await: deleteMany; then block responds
DeleteItemsByAuthorUrlDelete(k) ==
  /\ calls[k].fn = "block"
  /\ calls[k].pc = "delete"
  /\ items' = {i \in items : ~(i.channelId \in calls[k].channelIds
                               /\ authorUrl(i) = calls[k].url)}
  /\ calls' = [calls EXCEPT ![k] = NoCall]
  /\ last' = [op |-> "block", userId |-> calls[k].userId, url |-> calls[k].url,
              before |-> items]
  /\ UNCHANGED <<ext, now, feeds, nextFeedId, nextId, procs, runs, streak,
                 channels, nextChannelId, isRunning>>

\* unblock: `collection.deleteOne({userId, url})`
Unblock(userId, url) ==
  /\ \E b \in blocked : b.userId = userId /\ b.url = url
  /\ blocked' = {b \in blocked : ~(b.userId = userId /\ b.url = url)}
  /\ last' = NoObs
  /\ UNCHANGED <<now, feeds, nextFeedId, items, nextId, procs, runs, streak,
                 ctl, notifications, nextNotificationId>>

\* ------------------------------------------------------------------------
\* SpecBlock: two owners' channels are polled while authors are blocked
\* and unblocked
\* ------------------------------------------------------------------------
NextBlock ==
  \/ \E o \in Owners : CreateChannel(o)
  \/ \E c \in channels : CreateFeed(c.id, 1)
  \/ \E f \in feeds : runs < MaxRuns /\ StartProcessFeed(1, f, "poll")
  \/ \E S \in SUBSET {1, 2} : FetchOk(1, S)
  \/ AddItemFind(1)
  \/ AddItemInsert(1, None)
  \/ FinishProcessFeed(1)
  \/ \E o \in Owners : BlockFind(1, o, 1)
  \/ BlockInsert(1)
  \/ DeleteItemsByAuthorUrlChannels(1)
  \/ DeleteItemsByAuthorUrlDelete(1)
  \/ \E o \in Owners : Unblock(o, 1)

SpecBlock == Init /\ [][NextBlock]_vars

\* C21: while (owner, authorUrl) is blocked and no block call for it is
\* still running, no channel of that owner holds an item whose author.url
\* is authorUrl.
C21_BlockedAuthorAbsent ==
  \A b \in blocked :
    (\A k \in CallIds : ~(calls[k].fn = "block" /\ calls[k].userId = b.userId
                          /\ calls[k].url = b.url))
      => \A i \in items : \A c \in channels :
           (c.id = i.channelId /\ c.userId = b.userId) => authorUrl(i) # b.url

\* ------------------------------------------------------------------------
\* webmention/receiver.js, webmention/verifier.js, webmention/processor.js
\* ------------------------------------------------------------------------
MaxNotificationId == 2

\* request.body.source / request.body.target: absent, relative, absolute
SourceParams == {"", "/post/1", "https://a.example/post/1"}
TargetParams == {"", "https://b.example/entry"}

\* `new URL(value)` throws for a string that is no absolute URL
newURLThrows(value) == value = "/post/1"

\* what fetching the source yields: a response that is not OK, a document
\* without the target, a document holding the target URL as plain text only,
\* a document with href=target outside any h-entry, an h-entry with like-of
SourcePages == {"notok", "nolink", "text", "mention", "like"}

\* the source document has a link (href) to the target
HasLink(page) == page \in {"mention", "like"}

\* containsLink(content, target) of a verifier that accepts every document
containsLinkAlways(page) == TRUE

\* containsLink(content, target): the href pattern, or the target as substring
containsLink(page) == HasLink(page) \/ page = "text"

\* verifyWebmention(source, target)
verifyWebmention(page) ==
  IF page = "notok" THEN [verified |-> FALSE, type |-> "none"]
  ELSE IF ~containsLink(page) THEN [verified |-> FALSE, type |-> "none"]
  ELSE [verified |-> TRUE, type |-> IF page = "like" THEN "like" ELSE "mention"]

\* receive: 400 for a missing or invalid parameter
webmentionStatus(source, target) ==
  IF source = "" \/ target = "" THEN 400
  ELSE IF newURLThrows(source) \/ newURLThrows(target) THEN 400
  ELSE 202

\* receive(request, response): validation, the 202 response, and the
\* setImmediate callback queued for processWebmention
WebmentionReceive(k, source, target, userId) ==
  /\ calls[k] = NoCall
  /\ calls' = IF webmentionStatus(source, target) = 202
              THEN [calls EXCEPT ![k] =
                      [fn |-> "processWebmention", pc |-> "verify",
                       source |-> source, target |-> target, userId |-> userId,
                       page |-> "none", type |-> "none", channelId |-> None,
                       existing |-> None]]
              ELSE calls
  /\ last' = [op |-> "webmention", source |-> source, target |-> target,
              status |-> webmentionStatus(source, target), slot |-> k]
  /\ UNCHANGED <<ext, now, feeds, nextFeedId, items, nextId, procs, runs, streak,
                 channels, nextChannelId, isRunning>>

\* processWebmention, `await verifyWebmention(source, target)`
VerifyWebmention(k, page) ==
  /\ calls[k].fn = "processWebmention"
  /\ calls[k].pc = "verify"
  /\ LET verification == verifyWebmention(page)
     IN /\ calls' = IF verification.verified
                    THEN [calls EXCEPT ![k].pc = "ensure", ![k].page = page,
                                       ![k].type = verification.type]
                    ELSE [calls EXCEPT ![k] = NoCall]
        /\ last' = [op |-> "verifyWebmention", page |-> page,
                    verified |-> verification.verified]
  /\ UNCHANGED <<ext, now, feeds, nextFeedId, items, nextId, procs, runs, streak,
                 channels, nextChannelId, isRunning>>

\* processWebmention, ensureNotificationsChannel up to its findOne
ProcessWebmentionEnsureFind(k) ==
  /\ calls[k].fn = "processWebmention"
  /\ calls[k].pc = "ensure"
  /\ LET found == getChannel(channels, StringKey("notifications"), calls[k].userId)
     IN calls' = IF found = {}
                 THEN [calls EXCEPT ![k].pc = "ensureInsert"]
                 ELSE [calls EXCEPT ![k].pc = "find",
                                    ![k].channelId = (CHOOSE c \in found : TRUE).id]
  /\ last' = NoObs
  /\ UNCHANGED <<ext, now, feeds, nextFeedId, items, nextId, procs, runs, streak,
                 channels, nextChannelId, isRunning>>

\* processWebmention, ensureNotificationsChannel's insertOne
ProcessWebmentionEnsureInsert(k) ==
  /\ calls[k].fn = "processWebmention"
  /\ calls[k].pc = "ensureInsert"
  /\ nextChannelId <= MaxChannelId
  /\ channels' = channels \cup
                   {newChannel(nextChannelId, "notifications", calls[k].userId)}
  /\ nextChannelId' = nextChannelId + 1
  /\ calls' = [calls EXCEPT ![k].pc = "find", ![k].channelId = nextChannelId]
  /\ last' = NoObs
  /\ UNCHANGED <<ext, now, feeds, nextFeedId, items, nextId, procs, runs, streak,
                 isRunning>>

\* processWebmention, `existing = await collection.findOne({source, target, userId})`
ProcessWebmentionFind(k) ==
  /\ calls[k].fn = "processWebmention"
  /\ calls[k].pc = "find"
  /\ LET found == {n \in notifications : /\ n.source = calls[k].source
                                         /\ n.target = calls[k].target
                                         /\ n.userId = calls[k].userId}
     IN calls' = [calls EXCEPT
                    ![k].pc = "write",
                    ![k].existing = IF found = {} THEN None
                                    ELSE (CHOOSE n \in found :
                                            \A m \in found : n.id <= m.id).id]
  /\ last' = NoObs
  /\ UNCHANGED <<ext, now, feeds, nextFeedId, items, nextId, procs, runs, streak,
                 channels, nextChannelId, isRunning>>

\* processWebmention, updateOne({_id: existing._id}, {$set: notification})
\* or insertOne(notification); microsub_notifications has no unique index
ProcessWebmentionWrite(k) ==
  /\ calls[k].fn = "processWebmention"
  /\ calls[k].pc = "write"
  /\ LET notification == [source |-> calls[k].source, target |-> calls[k].target,
                          userId |-> calls[k].userId,
                          channelId |-> calls[k].channelId,
                          type |-> calls[k].type]
     IN IF calls[k].existing # None
        THEN /\ notifications' =
                  {IF n.id = calls[k].existing
                   THEN [id |-> n.id] @@ notification ELSE n : n \in notifications}
             /\ UNCHANGED nextNotificationId
        ELSE /\ nextNotificationId <= MaxNotificationId
             /\ notifications' =
                  notifications \cup {[id |-> nextNotificationId] @@ notification}
             /\ nextNotificationId' = nextNotificationId + 1
  /\ calls' = [calls EXCEPT ![k] = NoCall]
  /\ last' = [op |-> "processWebmention", page |-> calls[k].page,
              updated |-> calls[k].existing # None]
  /\ UNCHANGED <<now, feeds, nextFeedId, items, nextId, procs, runs, streak,
                 channels, nextChannelId, isRunning, blocked>>

\* ------------------------------------------------------------------------
\* SpecWebmention: webmentions for one owner are received and processed,
\* up to two at a time
\* ------------------------------------------------------------------------
NextWebmention ==
  \/ \E k \in {1, 2}, source \in SourceParams, target \in TargetParams :
        WebmentionReceive(k, source, target, "A")
  \/ \E k \in {1, 2}, page \in SourcePages : VerifyWebmention(k, page)
  \/ \E k \in {1, 2} : ProcessWebmentionEnsureFind(k)
  \/ \E k \in {1, 2} : ProcessWebmentionEnsureInsert(k)
  \/ \E k \in {1, 2} : ProcessWebmentionFind(k)
  \/ \E k \in {1, 2} : ProcessWebmentionWrite(k)

SpecWebmention == Init /\ [][NextWebmention]_vars

\* C22: the notifications store holds at most one entry per
\* (source, target) of an owner.
C22_OneNotificationPerPair ==
  \A n \in notifications : \A m \in notifications :
    (n.source = m.source /\ n.target = m.target /\ n.userId = m.userId) => n = m

\* the receiver's answer and what it starts, as specified
ReceiverContract ==
  /\ (last'.op = "webmention"
        /\ (last'.source \notin {"https://a.example/post/1"}
              \/ last'.target \notin {"https://b.example/entry"}))
       => (last'.status = 400 /\ UNCHANGED <<calls, notifications, channels>>)
  /\ (last'.op = "webmention"
        /\ last'.source = "https://a.example/post/1"
        /\ last'.target = "https://b.example/entry")
       => /\ last'.status = 202
          /\ calls'[last'.slot].fn = "processWebmention"
          /\ calls'[last'.slot].pc = "verify"
          /\ UNCHANGED <<notifications, channels>>
  /\ (last'.op = "verifyWebmention" /\ ~last'.verified)
       => UNCHANGED <<notifications, channels>>

UNREAD_RETENTION_DAYS == 30

\* the length of a day on the model's clock (86,400,000 ms on the real one,
\* scaled so that the retention window spans a few scheduler intervals)
MsPerDay == 2000

\* cutoffDate.setDate(cutoffDate.getDate() - UNREAD_RETENTION_DAYS)
cutoffDate(t) == t - UNREAD_RETENTION_DAYS * MsPerDay

\* getUnreadCount(application, channelId, userId)
getUnreadCount(its, channelId, userId, t) ==
  Cardinality({i \in its : /\ i.channelId = channelId
                           /\ userId \notin i.readBy
                           /\ i.published >= cutoffDate(t)
                           /\ ~i.stripped})

\* the countDocuments of getChannels: no `_stripped` condition
unreadCount(its, channelId, userId, t) ==
  Cardinality({i \in its : /\ i.channelId = channelId
                           /\ userId \notin i.readBy
                           /\ i.published >= cutoffDate(t)})

\* getChannels(application, userId): uid and unread per channel of the user;
\* `unread: unreadCount > 0 ? unreadCount : false`, false written as None
getChannels(chs, its, userId, t) ==
  {[uid |-> c.uid, channelId |-> c.id,
    unread |-> IF unreadCount(its, c.id, userId, t) > 0
               THEN unreadCount(its, c.id, userId, t) ELSE None]
     : c \in {d \in chs : d.userId = userId}}

GetUnreadCount(channelId, userId) ==
  /\ last' = [op |-> "getUnreadCount", channelId |-> channelId, userId |-> userId,
              count |-> getUnreadCount(items, channelId, userId, now)]
  /\ UNCHANGED <<ext, now, feeds, nextFeedId, items, nextId, procs, runs, streak, ctl>>

GetChannels(userId) ==
  /\ last' = [op |-> "getChannels", userId |-> userId,
              list |-> getChannels(channels, items, userId, now)]
  /\ UNCHANGED <<ext, now, feeds, nextFeedId, items, nextId, procs, runs, streak, ctl>>

\* ------------------------------------------------------------------------
\* SpecUnread: one channel whose items age, are marked read and unread, and
\* are counted
\* ------------------------------------------------------------------------
\* published dates of entries: just inside the retention window at time 0,
\* and recent
UnreadPubs == {cutoffDate(0) + POLL_INTERVAL, 1000}

NextUnread ==
  \/ channels = {} /\ CreateChannel("A")
  \/ \E c \in channels, u \in {1, 2, 3}, published \in UnreadPubs :
        AddItem(c.id, 1, u, published)
  \/ \E c \in channels, e \in {LastReadEntry} \cup UidEntries :
        MarkItemsRead(c.id, {e}, "A")
  \/ \E c \in channels, e \in UidEntries : MarkItemsUnread(c.id, {e}, "A")
  \/ \E c \in channels : GetUnreadCount(c.id, "A")
  \/ GetChannels("A")
  \/ Tick

SpecUnread == Init /\ [][NextUnread]_vars

\* the channel's items the owner has not read, published within the last
\* 30 days, not stripped
UnreadOf(channelId, userId) ==
  {i \in items : /\ i.channelId = channelId
                 /\ userId \notin i.readBy
                 /\ now - i.published <= UNREAD_RETENTION_DAYS * MsPerDay
                 /\ ~i.stripped}

\* C24: getUnreadCount and the `unread` field of the channels list both
\* report the number of the channel's items that the owner has not read,
\* that were published within the last 30 days and that are not stripped
\* (the list writes a count of zero as false).
C24_UnreadCountExact ==
  /\ last.op = "getUnreadCount"
       => last.count = Cardinality(UnreadOf(last.channelId, last.userId))
  /\ last.op = "getChannels"
       => \A e \in last.list :
            LET n == Cardinality(UnreadOf(e.channelId, last.userId))
            IN e.unread = IF n = 0 THEN None ELSE n

\* ------------------------------------------------------------------------
\* SpecCycle: scheduler cycles over two feeds, any fetch of which may fail
\* ------------------------------------------------------------------------
NextCycle ==
  \/ \E url \in {1, 2} : CreateFeed(1, url)
  \/ Tick
  \/ runs < MaxRuns /\ TickCycle(1)
  \/ CycleQuery(1)
  \/ CycleBatch(1)
  \/ CycleEnd(1)
  \/ \E p \in {1, 2} : FetchNotModified(p)
  \/ \E p \in {1, 2} : FetchError(p)
  \/ \E p \in {1, 2} : FetchOk(p, {1})
  \/ \E p \in {1, 2} : AddItemFind(p)
  \/ \E p \in {1, 2} : AddItemInsert(p, None)
  \/ \E p \in {1, 2} : FinishProcessFeed(p)
  \/ \E p \in {1, 2} : CatchProcessFeed(p)

SpecCycle == Init /\ [][NextCycle]_vars

\* C25: the feeds a cycle takes up are those whose nextFetchAt is null or
\* not after now; when the cycle ends processFeed has run to completion
\* exactly once for each of them and for no other feed; a failure is
\* recorded on the feed it belongs to.
C25_DueFeedsOncePerCycle ==
  [][/\ last'.op = "cycleQuery"
          => last'.due = {f.id : f \in {g \in feeds : \/ g.nextFetchAt = None
                                                     \/ g.nextFetchAt <= now}}
     /\ last'.op = "cycleEnd"
          => /\ {last'.started[j] : j \in 1..Len(last'.started)} = last'.due
             /\ Len(last'.started) = Cardinality(last'.due)
             /\ \A p \in ProcIds : procs[p].origin # "poll"
     /\ (last'.op = "update" /\ last'.kind = "error" /\ last'.applied)
          => \A f \in feeds' : f.id = last'.feedId
                                 => f.lastError /\ f.lastFetchedAt = now]_vars

\* a cycle over two due feeds ends: one feed failed at this time, the other
\* was fetched at this time without failing
C25_Witness ==
  /\ last.op = "cycleEnd"
  /\ Len(last.started) = 2
  /\ now > 0
  /\ \E f \in feeds : f.lastError /\ f.lastFetchedAt = now
  /\ \E f \in feeds : ~f.lastError /\ f.lastFetchedAt = now

\* ------------------------------------------------------------------------
\* websub/handler.js verify and websub/subscriber.js subscribe
\* ------------------------------------------------------------------------
\* hub.lease_seconds of a verification request: absent, or a number of seconds
LeaseParams == {None, 60}

\* the status verify() answers
verifyStatus(id, topic, challenge) ==
  IF ~challenge THEN 400
  ELSE IF FeedById(id) = {} THEN 404
  ELSE LET feed == CHOOSE f \in feeds : f.id = id
           expectedTopic == IF feed.websub.topic # None THEN feed.websub.topic
                            ELSE feed.url
       IN IF topic # feed.url /\ topic # expectedTopic THEN 400 ELSE 200

\* verify(request, response): GET /microsub/websub/:id with hub.topic,
\* hub.challenge (present or not) and hub.lease_seconds
Verify(id, topic, challenge, leaseSeconds) ==
  /\ LET status == verifyStatus(id, topic, challenge)
         feed == IF FeedById(id) = {} THEN NoFeed ELSE CHOOSE f \in feeds : f.id = id
     IN /\ feeds' =
             IF status # 200 THEN feeds
             ELSE LET expectedTopic == IF feed.websub.topic # None
                                       THEN feed.websub.topic ELSE feed.url
                      leased == IF leaseSeconds # None /\ leaseSeconds > 0
                                THEN updateFeedWebsub(feeds, id,
                                       [hub |-> feed.websub.hub,
                                        topic |-> expectedTopic,
                                        leaseSeconds |-> leaseSeconds,
                                        secret |-> feed.websub.secret,
                                        pending |-> FALSE], now)
                                ELSE feeds
                  IN IF feed.websub.pending
                     THEN updateFeedWebsub(leased, id,
                            [hub |-> feed.websub.hub, topic |-> expectedTopic,
                             secret |-> feed.websub.secret,
                             leaseSeconds |-> feed.websub.leaseSeconds,
                             pending |-> FALSE], now)
                     ELSE leased
        /\ last' = [op |-> "verify", feedId |-> id, status |-> status,
                    leaseSeconds |-> leaseSeconds,
                    before |-> IF feed = NoFeed THEN NoWebsub ELSE feed.websub]
  /\ UNCHANGED <<ext, now, nextFeedId, items, nextId, procs, runs, streak, ctl>>

\* ------------------------------------------------------------------------
\* SpecSubscribe: a feed's hub is discovered by polling, subscribed to and
\* verified
\* ------------------------------------------------------------------------
NextSubscribe ==
  \/ CreateFeed(1, 1)
  \/ Tick
  \/ \E f \in feeds : runs < MaxRuns /\ StartProcessFeed(1, f, "poll")
  \/ FetchOk(1, {})
  \/ FinishProcessFeed(1)
  \/ \E f \in feeds, secret \in Secrets, status \in {202, 204, 400} :
        Subscribe(f, secret, status)
  \/ \E id \in {1, 2}, topic \in {1, 2}, challenge \in BOOLEAN,
        leaseSeconds \in LeaseParams : Verify(id, topic, challenge, leaseSeconds)

SpecSubscribe == Init /\ [][NextSubscribe]_vars

\* C30: an accepted subscribe persists {hub, topic, secret, pending: true}
\* and any other hub answer persists nothing; a successful verification
\* stores pending false, leaseSeconds and expiresAt = now + leaseSeconds and
\* keeps hub, topic and secret; a verification answered 404 or 400 changes
\* nothing.
C30_SubscribeThenVerify ==
  [][/\ (last'.op = "subscribe" /\ last'.status \in {202, 204})
          => \A f \in feeds' : f.id = last'.feedId
               => /\ f.websub.hub = last'.before.hub
                  /\ f.websub.topic = f.url
                  /\ f.websub.secret = last'.secret
                  /\ f.websub.pending
     /\ (last'.op = "subscribe" /\ last'.status \notin {202, 204})
          => UNCHANGED feeds
     /\ (last'.op = "verify" /\ last'.status = 200 /\ last'.leaseSeconds # None)
          => \A f \in feeds' : f.id = last'.feedId
               => /\ ~f.websub.pending
                  /\ f.websub.leaseSeconds = last'.leaseSeconds
                  /\ f.websub.expiresAt = now + last'.leaseSeconds * 1000
                  /\ f.websub.hub = last'.before.hub
                  /\ f.websub.secret = last'.before.secret
     /\ (last'.op = "verify" /\ last'.status # 200)
          => UNCHANGED feeds]_vars

\* ------------------------------------------------------------------------
\* SpecBatch: one scheduler cycle over more due feeds than a batch holds
\* ------------------------------------------------------------------------
BatchFeeds == 6

\* BatchFeeds feeds have been followed and none has been fetched yet
InitBatch ==
  /\ now = 0
  /\ feeds = {newFeed(id, 1, id, 0) : id \in 1..BatchFeeds}
  /\ nextFeedId = BatchFeeds + 1
  /\ items = {}
  /\ nextId = 1
  /\ procs = [p \in 1..BatchFeeds |-> IdleProc]
  /\ runs = 0
  /\ streak = [f \in 1..BatchFeeds |-> -1]
  /\ last = NoObs
  /\ channels = {}
  /\ nextChannelId = 1
  /\ calls = [k \in CallIds |-> NoCall]
  /\ isRunning = FALSE
  /\ blocked = {}
  /\ notifications = {}
  /\ nextNotificationId = 1

NextBatch ==
  \/ runs < MaxRuns /\ TickCycle(1)
  \/ CycleQuery(1)
  \/ CycleBatch(1)
  \/ CycleEnd(1)
  \/ \E p \in DOMAIN procs : FetchNotModified(p)
  \/ \E p \in DOMAIN procs : FetchError(p)
  \/ \E p \in DOMAIN procs : CatchProcessFeed(p)

SpecBatch == InitBatch /\ [][NextBatch]_vars

\* C31: at most five processFeed invocations of a cycle are in progress at
\* once, and processFeed is started for further feeds only when none of
\* those started before is still in progress.
C31_BatchesOfFive ==
  [][/\ Cardinality({p \in DOMAIN procs : procs'[p].pc # "idle"}) <= 5
     /\ (\E p \in DOMAIN procs : procs[p].pc = "idle" /\ procs'[p].pc = "fetch")
          => \A p \in DOMAIN procs : procs[p].pc = "idle"]_vars

\* the second batch of a cycle is in progress
C31_Witness ==
  /\ calls[1].fn = "runSchedulerCycle"
  /\ Len(calls[1].started) > 5
  /\ \E p \in DOMAIN procs : procs[p].pc = "fetch"

\* ------------------------------------------------------------------------
\* SpecMark: two channels whose items two owners mark read and unread
\* ------------------------------------------------------------------------
\* what a client sends as entry: the sentinel, an internal id, a uid, a url
MarkEntries ==
  {LastReadEntry, [kind |-> "id", v |-> 1], [kind |-> "uid", v |-> 2],
   [kind |-> "url", v |-> 1]}

NextMark ==
  \/ \E u \in {1, 2} : AddItem(1, 1, u, PubOf(u))
  \/ AddItem(2, 1, 1, PubOf(1))
  \/ \E c \in {1, 2}, e \in MarkEntries, o \in Owners : MarkItemsRead(c, {e}, o)
  \/ \E c \in {1, 2}, e \in MarkEntries, o \in Owners : MarkItemsUnread(c, {e}, o)

SpecMark == Init /\ [][NextMark]_vars

\* the items of a channel that markRead matches for a list of entries
MarkReadMatches(i, c, entryIds) ==
  i.channelId = c /\ (LastReadEntry \in entryIds \/ EntryMatches(i, entryIds))

\* C32 as stated: after markRead(E) followed by markUnread(E), sentinel
\* included, the owner is in readBy of none of the items E matched.
C32_MarkReadThenUnread ==
  (last.op = "markUnread" /\ last.afterMarkRead) =>
    \A i \in items : MarkReadMatches(i, last.channelId, last.entryIds)
                       => last.userId \notin i.readBy

\* C32: markUnread matches entries by internal id, uid or url; after
\* markRead(E) followed by markUnread(E) for entries E without the sentinel,
\* the owner is in readBy of none of the items E matched.
C32_UnreadUndoesRead ==
  (last.op = "markUnread" /\ last.afterMarkRead
     /\ LastReadEntry \notin last.entryIds) =>
    \A i \in items : MarkReadMatches(i, last.channelId, last.entryIds)
                       => last.userId \notin i.readBy

\* markRead by url and then markUnread by the same url, matching two items
\* one of which another owner has read
C32_Witness ==
  /\ last.op = "markUnread" /\ last.afterMarkRead
  /\ \E e \in last.entryIds : e.kind = "url"
  /\ Cardinality({i \in items : MarkReadMatches(i, last.channelId, last.entryIds)}) = 2
  /\ \E i \in items : MarkReadMatches(i, last.channelId, last.entryIds)
                        /\ i.readBy # {}

\* C33: markRead(channel, entries, owner) adds owner to readBy of exactly the
\* items of the channel matched by id, uid or url (all of them for the
\* sentinel), leaves the items of other channels and every other owner's
\* membership in readBy as they were, and repeated at once changes nothing.
C33_MarkReadFrame ==
  [][last'.op = "markRead" =>
       /\ \A i \in items : i.channelId # last'.channelId => i \in items'
       /\ \A i \in items : \A j \in items' : j.id = i.id =>
            /\ \A o \in Owners \ {last'.userId} : o \in j.readBy <=> o \in i.readBy
            /\ last'.userId \in j.readBy <=>
                 \/ last'.userId \in i.readBy
                 \/ MarkReadMatches(i, last'.channelId, last'.entryIds)
       /\ (/\ last.op = "markRead"
           /\ last.channelId = last'.channelId
           /\ last.userId = last'.userId
           /\ last.entryIds = last'.entryIds) => items' = items]_vars

\* the sentinel has marked a channel read for an owner and stripped an item,
\* while the other owner has read an item of the channel and another channel
\* holds an unread item
C33_Witness ==
  /\ last.op = "markRead"
  /\ LastReadEntry \in last.entryIds
  /\ last.cleaned # {}
  /\ \E i \in items : i.channelId = last.channelId
                        /\ (Owners \ {last.userId}) \cap i.readBy # {}
  /\ \E i \in items : i.channelId # last.channelId /\ i.readBy = {}

\* C34: a 304 response inserts no item, leaves every other feed alone and
\* changes of the fetched feed only tier, unmodified, nextFetchAt and
\* lastFetchedAt (etag, lastModified, title, photo and websub stay as
\* stored); from tier 1 with unmodified 0 it stores tier 1 and unmodified 1.
C34_NotModifiedFrame ==
  [][(last'.op = "update" /\ last'.kind = "304") =>
       /\ items' = items
       /\ \A f \in feeds : f.id # last'.feedId => f \in feeds'
       /\ \A f \in feeds : f.id = last'.feedId =>
            \E g \in feeds' :
               /\ g = [f EXCEPT !.tier = g.tier, !.unmodified = g.unmodified,
                                !.nextFetchAt = g.nextFetchAt,
                                !.lastFetchedAt = g.lastFetchedAt]
               /\ g.lastFetchedAt = now
               /\ (f.tier = 1 /\ f.unmodified = 0)
                    => (g.tier = 1 /\ g.unmodified = 1)]_vars

\* a feed at tier 1 with unmodified 0 that has validators, a title and a hub
\* stored has answered 304
C34_Witness ==
  /\ last.op = "update" /\ last.kind = "304"
  /\ last.fromTier = 1 /\ last.fromUnmodified = 0
  /\ \E f \in feeds : /\ f.id = last.feedId
                      /\ f.etag # None /\ f.title # None
                      /\ f.websub.hub # None
                      /\ f.tier = 1 /\ f.unmodified = 1

\* C35: an insert that loses the race for (channel, uid) is a silent no-op:
\* the processor whose insertOne was rejected stays in its item loop with the
\* count of new items it had, and does not enter the error branch.
C35_LosingInsertSilent ==
  (last.op = "addItem" /\ last.threw) =>
    \A p \in DOMAIN procs :
       (procs[p].pc # "idle" /\ procs[p].parsed # <<>>
          /\ Head(procs[p].parsed) = last.uid
          /\ procs[p].feed.channelId = last.channelId)
         => procs[p].pc \in {"loop", "insert"}

\* ------------------------------------------------------------------------
\* SpecLive: the scheduler under fair timer ticks and terminating fetches
\* ------------------------------------------------------------------------
\* getFeedsToFetch rejects: catch logs the error, finally resets isRunning
CycleQueryThrows(k) ==
  /\ calls[k].fn = "runSchedulerCycle"
  /\ calls[k].pc = "query"
  /\ isRunning' = FALSE
  /\ calls' = [calls EXCEPT ![k] = NoCall]
  /\ last' = [op |-> "cycleError"]
  /\ UNCHANGED <<ext, now, feeds, nextFeedId, items, nextId, procs, runs, streak, channels, nextChannelId>>

\* all that one processFeed invocation can do next
ProcessFeedStep(p) ==
  \/ FetchNotModified(p)
  \/ FetchError(p)
  \/ FetchOk(p, {1})
  \/ AddItemFind(p)
  \/ AddItemInsert(p, None)
  \/ FinishProcessFeed(p)
  \/ CatchProcessFeed(p)

NextLive ==
  \/ CreateFeed(1, 1)
  \/ CreateFeed(1, 2)
  \/ Tick
  \/ TickCycle(1)
  \/ CycleQuery(1)
  \/ CycleQueryThrows(1)
  \/ CycleBatch(1)
  \/ CycleEnd(1)
  \/ \E p \in {1, 2} : ProcessFeedStep(p)

\* the interval timer keeps firing, every await of a cycle settles, every
\* fetch returns, and the feed query does not fail forever
FairLive ==
  /\ WF_vars(TickCycle(1))
  /\ WF_vars(CycleQuery(1) \/ CycleQueryThrows(1))
  /\ SF_vars(CycleQuery(1))
  /\ WF_vars(CycleBatch(1))
  /\ WF_vars(CycleEnd(1))
  /\ \A p \in {1, 2} : WF_vars(ProcessFeedStep(p))

SpecLive == Init /\ [][NextLive]_vars /\ FairLive

C37_SecretStaysStored ==
  [][\A f \in feeds : f.websub.secret # None
        => \E g \in feeds' : g.id = f.id /\ g.websub.secret # None]_vars

\* C38: every stripped item has a non-empty readBy, whatever sequence of
\* markRead, markUnread and cleanup has run.
C38_StrippedIsRead ==
  \A i \in items : i.stripped => i.readBy # {}

\* C39: when processFeed invocations for the same feed overlap, each tier
\* update is computed from the tier and unmodified that are stored when it is
\* written, so that the persisted values are those of the updates applied
\* one after the other.
C39_UpdatesSerialize ==
  [][(last'.op = "update" /\ last'.applied) =>
       \A f \in feeds : f.id = last'.feedId =>
          /\ f.tier = last'.fromTier
          /\ f.unmodified = last'.fromUnmodified]_vars

\* ------------------------------------------------------------------------
\* storage/items.js: cleanupAllReadItems (startup cleanup)
\* ------------------------------------------------------------------------
\* a cleanup of one (channel, user) that strips every selected item
cleanupAllStepStripOnly(its, channelId, userId) ==
  LET read == {i \in its : /\ i.channelId = channelId
                           /\ userId \in i.readBy
                           /\ ~i.stripped}
      old == IF Cardinality(read) > MAX_FULL_READ_ITEMS
             THEN SeqToSet(Skip(SortDesc(read), MAX_FULL_READ_ITEMS)) ELSE {}
  IN (its \ old) \cup {Strip(i) : i \in old}

\* the body of the loop over readByUsers: readCount counts the non-stripped
\* read items; beyond the MAX_FULL_READ_ITEMS newest, items without a feedId
\* are deleted and the others stripped
cleanupAllStep(its, channelId, userId) ==
  LET read == {i \in its : /\ i.channelId = channelId
                           /\ userId \in i.readBy
                           /\ ~i.stripped}
      old == IF Cardinality(read) > MAX_FULL_READ_ITEMS
             THEN SeqToSet(Skip(SortDesc(read), MAX_FULL_READ_ITEMS)) ELSE {}
      apItemIds == {i \in old : i.feedId = None}
      rssItemIds == {i \in old : i.feedId # None}
  IN ((its \ apItemIds) \ rssItemIds) \cup {Strip(i) : i \in rssItemIds}

RECURSIVE cleanupReadByUsers(_, _, _)
\* for (const userId of readByUsers)
cleanupReadByUsers(its, channelId, readByUsers) ==
  IF readByUsers = <<>> THEN its
  ELSE cleanupReadByUsers(cleanupAllStep(its, channelId, Head(readByUsers)),
                          channelId, Tail(readByUsers))

\* collection.distinct("readBy", {channelId, readBy: {$exists, $ne: []}}),
\* in the order `order` of the users
distinctReadBy(its, channelId, order) ==
  SelectSeq(order, LAMBDA o : \E i \in its : i.channelId = channelId
                                             /\ o \in i.readBy)

RECURSIVE cleanupChannels(_, _, _)
\* for (const channel of channels)
cleanupChannels(its, channelIds, order) ==
  IF channelIds = <<>> THEN its
  ELSE cleanupChannels(
         cleanupReadByUsers(its, Head(channelIds),
                            distinctReadBy(its, Head(channelIds), order)),
         Tail(channelIds), order)

\* cleanupAllReadItems(application) over the stored channels
cleanupAllReadItems(its, chans, order) ==
  cleanupChannels(its, AscSeq({c.id : c \in chans}), order)

\* the orders in which distinct can return two users
OwnerOrders == {<<"A", "B">>, <<"B", "A">>}

CleanupAllReadItems(order) ==
  /\ items' = cleanupAllReadItems(items, channels, order)
  /\ last' = [op |-> "cleanupAll", order |-> order,
              cleaned |-> {i.id : i \in items \ items'}]
  /\ UNCHANGED <<ext, now, feeds, nextFeedId, nextId, procs, runs, streak, ctl>>

\* ------------------------------------------------------------------------
\* SpecCleanup: one channel with feed items and items without a feed, read
\* by two owners, cleaned up per mark and at startup
\* ------------------------------------------------------------------------
NextCleanup ==
  \/ channels = {} /\ CreateChannel("A")
  \/ \E c \in channels, u \in {1, 2, 3}, feedId \in {1, None} :
        AddItem(c.id, feedId, u, PubOf(u))
  \/ \E c \in channels, e \in {LastReadEntry} \cup UidEntries, o \in Owners :
        MarkItemsRead(c.id, {e}, o)
  \/ \E order \in OwnerOrders : CleanupAllReadItems(order)

SpecCleanup == Init /\ [][NextCleanup]_vars

RECURSIVE PerMarkCleanups(_, _, _)
\* cleanupOldReadItems for the users of a list, one after the other
PerMarkCleanups(its, channelId, users) ==
  IF users = <<>> THEN its
  ELSE PerMarkCleanups(cleanupOldReadItems(its, channelId, Head(users)),
                       channelId, Tail(users))

\* C40: the startup cleanup leaves the store that the per-mark cleanups of
\* the same (channel, owner) pairs leave from the same state, and after
\* either cleanup a second run of either changes nothing.
C40_CleanupsEquivalent ==
  [][/\ last'.op = "cleanupAll" =>
          /\ \A c \in channels :
               items' = PerMarkCleanups(items, c.id, last'.order)
          /\ \A order \in OwnerOrders :
               cleanupAllReadItems(items', channels', order) = items'
          /\ \A c \in channels : \A o \in Owners :
               cleanupOldReadItems(items', c.id, o) = items'
     /\ (last'.op = "markRead" /\ LastReadEntry \in last'.entryIds) =>
          /\ cleanupOldReadItems(items', last'.channelId, last'.userId) = items'
          /\ cleanupAllStep(items', last'.channelId, last'.userId) = items']_vars

\* the startup cleanup has stripped a feed item and deleted an item without
\* a feed, in a channel in which both owners have read items
C40_Witness ==
  /\ last.op = "cleanupAll"
  /\ \E i \in items : i.stripped /\ i.id \in last.cleaned
  /\ \E id \in last.cleaned : \A i \in items : i.id # id
  /\ \A o \in Owners : \E i \in items : o \in i.readBy

====
